---- MODULE Spec2Model ----
(***************************************************************************)
(* Model of the Numba runtime (NRT) memory-info allocator and refcounting  *)
(* runtime, src/numba/core/runtime/nrt.cpp.                                *)
(*                                                                         *)
(* The C functions are operators over a state record                       *)
(*   s = [sys, heap, mi, ev, proc]                                         *)
(* (TheMSys, the heap, the MemInfo records, the events of the running      *)
(* call, the process state) and return the new state, or [s, r] when the   *)
(* function returns a value.  Everything the environment decides (whether  *)
(* malloc succeeds, what undefined behaviour does) is the record c of      *)
(* choices, which the actions draw with \E.                                *)
(***************************************************************************)
EXTENDS Integers, Sequences, FiniteSets, TLC

VARIABLES TheMSys, heap, mi, last, proc, calls, scn, thr

vars == <<TheMSys, heap, mi, last, proc, calls, scn, thr>>

(***************************************************************************)
(* Bounds of the model.                                                    *)
(***************************************************************************)
\* calls of the API in one run
MaxCalls == 3
\* acquires of the leak-law scenario
MaxN == 3
\* the threads sharing one handle, and the acquires each of them makes
NThreads == 2
MaxAcq == 1

\* the bits of an unsigned and of a size_t in the model (32 and 64 in the
\* usual build): arithmetic in these types is modulo two to these widths,
\* and wraps in the same way at any width
UIntBits == 8
SizeTBits == 16

\* a call allocates at most two blocks
MaxBlocks == 2 * MaxCalls

Blocks == 1 .. MaxBlocks

(***************************************************************************)
(* Pointers.  A pointer is a block and an offset into it; block 0 is NULL, *)
(* block -1 is memory the runtime did not allocate (manage_memory).        *)
(***************************************************************************)
NullPtr == [blk |-> 0, off |-> 0]
Base(b) == [blk |-> b, off |-> 0]
ForeignPtr == [blk |-> -1, off |-> 0]

\* the address malloc returns for block b (16-byte aligned, as libc's)
BaseAddr(b) == 16 * b

\* sizeof(NRT_MemInfo): six pointer-sized fields
SizeofMemInfo == 48

PtrAdd(p, n) == [blk |-> p.blk, off |-> p.off + n]
PtrAddr(p) == IF p.blk <= 0 THEN p.off ELSE BaseAddr(p.blk) + p.off

\* the functions a binding can name: 0 is libc's, 1 a replacement's
NoFunc == -1
libc == [malloc |-> 0, realloc |-> 0, free |-> 0]
NoBinding == [malloc |-> NoFunc, realloc |-> NoFunc, free |-> NoFunc]

\* the triples passed to NRT_MemSys_set_allocator: libc's, a replacement's,
\* and libc's with another free
Allocators == {libc,
               [malloc |-> 1, realloc |-> 1, free |-> 1],
               [malloc |-> 0, realloc |-> 0, free |-> 1]}

\* payload sizes and alignments the callers ask for
Sizes == {16}
ResizeSizes == {0, 16}
Aligns == {32}

\* function pointers stored in dtor_info (an untyped void* in the C code)
UserDtor == 1000
NoInfo == 0

MIN(a, b) == IF a < b THEN a ELSE b

\* the value of an expression of type unsigned, and of type size_t
Unsigned(n) == n % (2 ^ UIntBits)
SizeT(n) == n % (2 ^ SizeTBits)

(***************************************************************************)
(* External allocators (NRT_ExternalAllocator).  0 is "no allocator";      *)
(* 1 is the sample allocator, 2 the same functions with another token.     *)
(***************************************************************************)
NoExt == 0
sample_external_opaque_data == 11250349
OtherToken == 1
ExtAllocators == {1, 2}
ExtOpaque(a) == IF a = 1 THEN sample_external_opaque_data ELSE OtherToken

(***************************************************************************)
(* Records.                                                                *)
(***************************************************************************)
\* a block: by is the global binding in force when it was allocated, ext the
\* external allocator it was allocated through, pat/npat its last fill
NoBlock == [st |-> "unalloc", by |-> NoBinding, ext |-> NoExt, pat |-> "none",
            npat |-> 0]

NoMI == [init |-> FALSE, refct |-> 0, dtor |-> "NULL", dtor_info |-> NoInfo,
         data |-> NullPtr, size |-> 0, external_allocator |-> NoExt]

\* the last call: the function, the handle and the triple passed, the
\* pointer returned, the size or the external allocator passed, the events
NoLast == [op |-> "none", mi |-> 0, alloc |-> NoBinding, res |-> NullPtr,
           arg |-> 0, ev |-> <<>>]

InitSys == [shutting |-> 0, stats_alloc |-> 0, stats_free |-> 0,
            stats_mi_alloc |-> 0, stats_mi_free |-> 0, allocator |-> libc]

\* the choices of the environment during one call
Choices == [ok1 : BOOLEAN, ok2 : BOOLEAN, ub : {"crash", "silent"},
            moved : BOOLEAN]

Cur == [sys |-> TheMSys, heap |-> heap, mi |-> mi, ev |-> <<>>, proc |-> proc]

Ret(s, r) == [s |-> s, r |-> r]

Log(s, e) == [s EXCEPT !.ev = Append(@, e)]

\* an event of the running call: what happened, and to which block; a free
\* has the bindings and external allocators of the block and of the free, a
\* fill its start, byte and length, a call of an external allocator its
\* opaque_data, a call of a destructor its arguments (at, n, info)
Ev(e, b) == [e |-> e, blk |-> b, by |-> NoBinding, ext |-> NoExt,
             fr |-> NoBinding, fext |-> NoExt, at |-> NullPtr,
             byte |-> "none", n |-> 0, opaque |-> 0, info |-> NoInfo]

\* the call of a function the caller supplied: dtor(ptr, size, info)
EvCall(e, ptr, size, info) ==
    [Ev(e, ptr.blk) EXCEPT !.at = ptr, !.n = size, !.info = info]

\* undefined behaviour: the process dies, or goes on with nothing visible
UB(s, c) == IF c.ub = "crash" THEN [s EXCEPT !.proc = "crashed"] ELSE s

Running(s) == s.proc = "running"

(***************************************************************************)
(* The allocator functions the bindings point at.                          *)
(***************************************************************************)
\* malloc hands out the lowest free block
FreshBlock(s) == CHOOSE b \in Blocks :
                    /\ s.heap[b].st = "unalloc"
                    /\ \A b2 \in Blocks : s.heap[b2].st = "unalloc" => b <= b2


IsLiveBase(s, p) == p.blk \in Blocks /\ p.off = 0 /\ s.heap[p.blk].st = "live"

\* a malloc function of the global binding, reached through external
\* allocator `ext` (or none)
PoolMalloc(s, func, ext, ok) ==
    IF ok
    THEN LET b == FreshBlock(s)
         IN  Ret([s EXCEPT !.heap[b] = [NoBlock EXCEPT !.st = "live",
                                                      !.by = s.sys.allocator,
                                                      !.ext = ext]],
                 Base(b))
    ELSE Ret(s, NullPtr)

\* a free function of the global binding, reached through external allocator
\* `ext` (or none): free(NULL) does nothing, free of anything but a live
\* block is undefined.  The block and what it held are gone; the event keeps
\* the binding that allocated it and the binding that freed it.
PoolFree(s, func, ext, p, c) ==
    IF p = NullPtr THEN s
    ELSE IF IsLiveBase(s, p)
    THEN Log([s EXCEPT !.heap[p.blk] = NoBlock, !.mi[p.blk] = NoMI],
             [Ev("free", p.blk) EXCEPT !.by = s.heap[p.blk].by,
                                       !.ext = s.heap[p.blk].ext,
                                       !.fr = s.sys.allocator,
                                       !.fext = ext])
    ELSE UB(s, c)

\* a realloc function of the global binding: fails (block untouched), resizes in place, or
\* moves the block (a new block, then the old one freed); realloc(NULL, n) is
\* malloc(n); realloc(p, 0) may free p and return NULL
PoolRealloc(s, func, p, size, c) ==
    IF p = NullPtr THEN PoolMalloc(s, func, NoExt, c.ok1)
    ELSE IF ~IsLiveBase(s, p) THEN Ret(UB(s, c), NullPtr)
    ELSE IF ~c.ok1
    THEN IF size = 0 /\ c.moved
         THEN Ret(PoolFree(s, func, NoExt, p, c), NullPtr)
         ELSE Ret(s, NullPtr)
    ELSE IF c.moved
    THEN LET n == PoolMalloc(s, func, NoExt, TRUE)
         IN  Ret(PoolFree(n.s, func, NoExt, p, c), n.r)
    ELSE Ret(s, p)

\* memset(p, byte, n) on a payload: the block remembers the last fill
Memset(s, p, byte, n, c) ==
    IF n = 0 THEN s
    ELSE IF p.blk \in Blocks /\ s.heap[p.blk].st = "live"
    THEN Log([s EXCEPT !.heap[p.blk].pat = byte, !.heap[p.blk].npat = n],
             [Ev("fill", p.blk) EXCEPT !.at = p, !.byte = byte, !.n = n])
    ELSE UB(s, c)

(***************************************************************************)
(* Sample external allocator.                                              *)
(***************************************************************************)
sample_external_malloc(s, size, opaque_data, ext, ok) ==
    IF opaque_data /= sample_external_opaque_data THEN Ret(s, NullPtr)
    ELSE PoolMalloc(s, s.sys.allocator.malloc, ext, ok)

sample_external_free(s, p, opaque_data, ext, c) ==
    PoolFree(Log(s, [Ev("external_free", p.blk) EXCEPT !.fext = ext,
                                                       !.opaque = opaque_data]),
             s.sys.allocator.free, ext, p, c)

(***************************************************************************)
(* Low-level allocation wrappers.                                          *)
(***************************************************************************)
NRT_Allocate_External(s, size, allocator, ok) ==
    LET m == IF allocator /= NoExt
             THEN sample_external_malloc(s, size, ExtOpaque(allocator),
                                         allocator, ok)
             ELSE PoolMalloc(s, s.sys.allocator.malloc, NoExt, ok)
    IN  Ret(Log([m.s EXCEPT !.sys.stats_alloc = @ + 1],
                [Ev("malloc", m.r.blk) EXCEPT !.n = size]),
            m.r)

NRT_Allocate(s, size, ok) == NRT_Allocate_External(s, size, NoExt, ok)

NRT_Reallocate(s, p, size, c) ==
    PoolRealloc(s, s.sys.allocator.realloc, p, size, c)

NRT_Free(s, p, c) ==
    LET f == PoolFree(s, s.sys.allocator.free, NoExt, p, c)
    IN  IF ~Running(f) THEN f
        ELSE [f EXCEPT !.sys.stats_free = @ + 1]

(***************************************************************************)
(* Destructors.  A caller's destructor is opaque: it is an event.          *)
(***************************************************************************)
\* a variant of nrt_internal_dtor_safe that fills the whole payload
nrt_internal_dtor_safe_whole(s, ptr, size, info, c) ==
    Memset(s, ptr, "DE", size, c)

nrt_internal_dtor_safe(s, ptr, size, info, c) ==
    Memset(s, ptr, "DE", MIN(size, 256), c)

\* a variant of nrt_internal_custom_dtor_safe that fills the payload before it
\* calls the caller's destructor
nrt_internal_custom_dtor_safe_fill_first(s, ptr, size, info, c) ==
    LET f == nrt_internal_dtor_safe(s, ptr, size, NoInfo, c)
    IN  IF info /= NoInfo /\ Running(f)
        THEN Log(f, EvCall("user_dtor", ptr, size, NoInfo))
        ELSE f

nrt_internal_custom_dtor_safe(s, ptr, size, info, c) ==
    LET d == IF info /= NoInfo
             THEN Log(s, EvCall("user_dtor", ptr, size, NoInfo))
             ELSE s
    IN  nrt_internal_dtor_safe(d, ptr, size, NoInfo, c)

nrt_varsize_dtor(s, ptr, size, info, c) ==
    LET d == IF info /= NoInfo
             THEN Log(s, EvCall("elem_dtor", ptr, 0, NoInfo))
             ELSE s
    IN  NRT_Free(d, ptr, c)

\* a variant of nrt_manage_memory_dtor that frees the data after the call
nrt_manage_memory_dtor_freeing(s, data, size, info, c) ==
    NRT_Free(Log(s, EvCall("managed_dtor", data, 0, NoInfo)), data, c)

\* the call through a null NRT_managed_dtor is undefined
nrt_manage_memory_dtor(s, data, size, info, c) ==
    IF info = NoInfo THEN UB(s, c)
    ELSE Log(s, EvCall("managed_dtor", data, 0, NoInfo))

\* NRT_MemInfo_acquire and NRT_MemInfo_release are called by destructors of
\* the caller too
RECURSIVE NRT_MemInfo_acquire(_, _)
RECURSIVE NRT_MemInfo_release(_, _, _)

\* a destructor of the caller that releases the handle in dtor_info, which
\* the handle it is attached to owns a reference to
release_child_dtor(s, data, size, info, c) ==
    NRT_MemInfo_release(Log(s, EvCall("user_dtor", data, size, info)),
                        Base(info), c)

\* a destructor of the caller that acquires the handle in dtor_info and
\* releases it again
touch_child_dtor(s, data, size, info, c) ==
    LET a == NRT_MemInfo_acquire(Log(s, EvCall("user_dtor", data, size, info)),
                                 Base(info))
    IN  IF ~Running(a) THEN a
        ELSE NRT_MemInfo_release(a, Base(info), c)

\* mi->dtor(mi->data, mi->size, mi->dtor_info)
CallDtor(s, dtor, data, size, info, c) ==
    CASE dtor = "nrt_internal_dtor_safe" ->
            nrt_internal_dtor_safe(s, data, size, info, c)
      [] dtor = "nrt_internal_custom_dtor_safe" ->
            nrt_internal_custom_dtor_safe(s, data, size, info, c)
      [] dtor = "nrt_varsize_dtor" ->
            nrt_varsize_dtor(s, data, size, info, c)
      [] dtor = "nrt_manage_memory_dtor" ->
            nrt_manage_memory_dtor(s, data, size, info, c)
      [] dtor = "release_child_dtor" ->
            release_child_dtor(s, data, size, info, c)
      [] dtor = "touch_child_dtor" ->
            touch_child_dtor(s, data, size, info, c)
      [] OTHER -> Log(s, EvCall("user_dtor", data, size, info))

(***************************************************************************)
(* The MemInfo structure.                                                  *)
(***************************************************************************)
\* the stores through a null mi are undefined
NRT_MemInfo_init(s, m, data, size, dtor, dtor_info, external_allocator, c) ==
    IF ~Running(s) THEN s
    ELSE IF m = NullPtr
    THEN LET u == UB(s, c)
         IN  IF ~Running(u) THEN u
             ELSE [u EXCEPT !.sys.stats_mi_alloc = @ + 1]
    ELSE [s EXCEPT !.mi[m.blk] = [init |-> TRUE,
                                  refct |-> 1,
                                  dtor |-> dtor,
                                  dtor_info |-> dtor_info,
                                  data |-> data,
                                  size |-> size,
                                  external_allocator |-> external_allocator],
                   !.sys.stats_mi_alloc = @ + 1]

NRT_MemInfo_new(s, data, size, dtor, dtor_info, ok, c) ==
    LET a == NRT_Allocate(s, SizeofMemInfo, ok)
    IN  Ret(NRT_MemInfo_init(a.s, a.r, data, size, dtor, dtor_info, NoExt, c),
            a.r)

NRT_MemInfo_refcount(s, m) ==
    IF m /= NullPtr /\ s.mi[m.blk].data /= NullPtr
    THEN s.mi[m.blk].refct
    ELSE -1

nrt_allocate_meminfo_and_data(s, size, allocator, ok) ==
    LET a == NRT_Allocate_External(s, SizeT(SizeofMemInfo + size), allocator,
                                   ok)
    IN  Ret(a.s, [mi |-> a.r, data |-> PtrAdd(a.r, SizeofMemInfo)])

NRT_MemInfo_alloc(s, size, c) ==
    LET a == nrt_allocate_meminfo_and_data(s, size, NoExt, c.ok1)
    IN  Ret(NRT_MemInfo_init(a.s, a.r.mi, a.r.data, size, "NULL", NoInfo,
                             NoExt, c),
            a.r.mi)

NRT_MemInfo_alloc_external(s, size, allocator, c) ==
    LET a == nrt_allocate_meminfo_and_data(s, size, allocator, c.ok1)
    IN  Ret(NRT_MemInfo_init(a.s, a.r.mi, a.r.data, size, "NULL", NoInfo,
                             allocator, c),
            a.r.mi)

NRT_MemInfo_alloc_dtor_safe(s, size, dtor, c) ==
    LET a == nrt_allocate_meminfo_and_data(s, size, NoExt, c.ok1)
        f == Memset(a.s, a.r.data, "CB", MIN(size, 256), c)
    IN  Ret(NRT_MemInfo_init(f, a.r.mi, a.r.data, size,
                             "nrt_internal_custom_dtor_safe", dtor, NoExt, c),
            a.r.mi)

NRT_MemInfo_alloc_safe(s, size, c) ==
    NRT_MemInfo_alloc_dtor_safe(s, size, NoInfo, c)

\* a variant of the offset computation that moves forward by the remainder
AlignOffset_remainder(intptr, align) == intptr % align

AlignOffset(intptr, align) ==
    LET remainder == intptr % align
    IN  IF remainder = 0 THEN 0 ELSE align - remainder

nrt_allocate_meminfo_and_data_align(s, size, align, allocator, ok) ==
    LET a == nrt_allocate_meminfo_and_data(s, SizeT(size + Unsigned(2 * align)),
                                           allocator, ok)
        base == a.r.data
    IN  Ret(a.s, [mi |-> a.r.mi,
                  data |-> PtrAdd(base, AlignOffset(PtrAddr(base), align))])

NRT_MemInfo_alloc_aligned(s, size, align, c) ==
    LET a == nrt_allocate_meminfo_and_data_align(s, size, align, NoExt, c.ok1)
    IN  Ret(NRT_MemInfo_init(a.s, a.r.mi, a.r.data, size, "NULL", NoInfo,
                             NoExt, c),
            a.r.mi)

NRT_MemInfo_alloc_safe_aligned(s, size, align, c) ==
    LET a == nrt_allocate_meminfo_and_data_align(s, size, align, NoExt, c.ok1)
        f == Memset(a.s, a.r.data, "CB", MIN(size, 256), c)
    IN  Ret(NRT_MemInfo_init(f, a.r.mi, a.r.data, size,
                             "nrt_internal_dtor_safe", size, NoExt, c),
            a.r.mi)

NRT_MemInfo_alloc_safe_aligned_external(s, size, align, allocator, c) ==
    LET a == nrt_allocate_meminfo_and_data_align(s, size, align, allocator,
                                                 c.ok1)
        f == Memset(a.s, a.r.data, "CB", MIN(size, 256), c)
    IN  Ret(NRT_MemInfo_init(f, a.r.mi, a.r.data, size,
                             "nrt_internal_dtor_safe", size, allocator, c),
            a.r.mi)

\* nrt_fatal_error: abort()
nrt_fatal_error(s) == [s EXCEPT !.proc = "aborted"]

\* assert(cond): a failed assertion aborts
assert(s, cond) == IF cond THEN s ELSE [s EXCEPT !.proc = "aborted"]

\* a variant of NRT_dealloc that frees every handle through the global binding
NRT_dealloc_global(s, m, c) == NRT_Free(s, m, c)

\* a variant of NRT_dealloc that does not count the free of an external
\* allocator
NRT_dealloc_uncounted(s, m, c) ==
    LET a == s.mi[m.blk].external_allocator
    IN  IF a /= NoExt
        THEN sample_external_free(s, m, ExtOpaque(a), a, c)
        ELSE NRT_Free(s, m, c)

NRT_dealloc(s, m, c) ==
    LET a == s.mi[m.blk].external_allocator
    IN  IF a /= NoExt
        THEN LET f == sample_external_free(s, m, ExtOpaque(a), a, c)
             IN  IF ~Running(f) THEN f
                 ELSE [f EXCEPT !.sys.stats_free = @ + 1]
        ELSE NRT_Free(s, m, c)

\* a variant of NRT_MemInfo_destroy that counts the handle before it frees it
NRT_MemInfo_destroy_count_first(s, m, c) ==
    NRT_dealloc(Log([s EXCEPT !.sys.stats_mi_free = @ + 1],
                    Ev("mi_free", m.blk)),
                m, c)

NRT_MemInfo_destroy(s, m, c) ==
    LET d == NRT_dealloc(s, m, c)
    IN  IF ~Running(d) THEN d
        ELSE Log([d EXCEPT !.sys.stats_mi_free = @ + 1], Ev("mi_free", m.blk))

\* a variant of NRT_MemInfo_acquire that counts the reference twice
NRT_MemInfo_acquire_twice(s, m) ==
    LET a == assert(s, s.mi[m.blk].refct > 0)
    IN  IF ~Running(a) THEN a
        ELSE [a EXCEPT !.mi[m.blk].refct = @ + 2]

NRT_MemInfo_acquire(s, m) ==
    LET a == assert(s, s.mi[m.blk].refct > 0)
    IN  IF ~Running(a) THEN a
        ELSE [a EXCEPT !.mi[m.blk].refct = @ + 1]

\* a variant of NRT_MemInfo_call_dtor that frees the handle before it calls
\* the destructor
NRT_MemInfo_call_dtor_destroy_first(s, m, c) ==
    LET r == s.mi[m.blk]
        d == NRT_MemInfo_destroy(s, m, c)
    IN  IF r.dtor /= "NULL" /\ s.sys.shutting = 0 /\ Running(d)
        THEN CallDtor(Log(d, [EvCall("dtor", r.data, r.size, r.dtor_info)
                                 EXCEPT !.blk = m.blk]),
                      r.dtor, r.data, r.size, r.dtor_info, c)
        ELSE d

\* a variant of NRT_MemInfo_call_dtor that does not look at the shutdown flag
NRT_MemInfo_call_dtor_always(s, m, c) ==
    LET r == s.mi[m.blk]
        d == IF r.dtor /= "NULL"
             THEN CallDtor(Log(s, [EvCall("dtor", r.data, r.size, r.dtor_info)
                                      EXCEPT !.blk = m.blk]),
                           r.dtor, r.data, r.size, r.dtor_info, c)
             ELSE s
    IN  IF ~Running(d) THEN d
        ELSE NRT_MemInfo_destroy(d, m, c)

NRT_MemInfo_call_dtor(s, m, c) ==
    LET r == s.mi[m.blk]
        d == IF r.dtor /= "NULL" /\ s.sys.shutting = 0
             THEN CallDtor(Log(s, [EvCall("dtor", r.data, r.size, r.dtor_info)
                                      EXCEPT !.blk = m.blk]),
                           r.dtor, r.data, r.size, r.dtor_info, c)
             ELSE s
    IN  IF ~Running(d) THEN d
        ELSE NRT_MemInfo_destroy(d, m, c)

\* a variant of NRT_MemInfo_release that destroys on the last but one
\* reference too
NRT_MemInfo_release_early(s, m, c) ==
    LET a == assert(s, s.mi[m.blk].refct > 0)
        d == [a EXCEPT !.mi[m.blk].refct = @ - 1]
    IN  IF ~Running(a) THEN a
        ELSE IF d.mi[m.blk].refct <= 1
        THEN NRT_MemInfo_call_dtor(d, m, c)
        ELSE d

NRT_MemInfo_release(s, m, c) ==
    LET a == assert(s, s.mi[m.blk].refct > 0)
        d == [a EXCEPT !.mi[m.blk].refct = @ - 1]
    IN  IF ~Running(a) THEN a
        ELSE IF d.mi[m.blk].refct = 0
        THEN NRT_MemInfo_call_dtor(d, m, c)
        ELSE d

NRT_MemInfo_data(s, m) == s.mi[m.blk].data

NRT_MemInfo_size(s, m) == s.mi[m.blk].size

NRT_MemInfo_parent(s, m) == s.mi[m.blk].dtor_info

(***************************************************************************)
(* Resizable buffer API.                                                   *)
(***************************************************************************)
NRT_MemInfo_new_varsize(s, size, c) ==
    LET d == NRT_Allocate(s, size, c.ok1)
    IN  IF d.r = NullPtr THEN Ret(d.s, NullPtr)
        ELSE NRT_MemInfo_new(d.s, d.r, size, "nrt_varsize_dtor", NoInfo,
                             c.ok2, c)

NRT_MemInfo_new_varsize_dtor(s, size, dtor, c) ==
    LET m == NRT_MemInfo_new_varsize(s, size, c)
    IN  IF m.r /= NullPtr /\ Running(m.s)
        THEN Ret([m.s EXCEPT !.mi[m.r.blk].dtor_info = dtor], m.r)
        ELSE m

\* a variant of NRT_MemInfo_varsize_alloc that does not store the size
NRT_MemInfo_varsize_alloc_no_size(s, m, size, c) ==
    IF s.mi[m.blk].dtor /= "nrt_varsize_dtor"
    THEN Ret(nrt_fatal_error(s), NullPtr)
    ELSE LET a == NRT_Allocate(s, size, c.ok1)
         IN  Ret([a.s EXCEPT !.mi[m.blk].data = a.r], a.r)

NRT_MemInfo_varsize_alloc(s, m, size, c) ==
    IF s.mi[m.blk].dtor /= "nrt_varsize_dtor"
    THEN Ret(nrt_fatal_error(s), NullPtr)
    ELSE LET a == NRT_Allocate(s, size, c.ok1)
             w == [a.s EXCEPT !.mi[m.blk].data = a.r]
         IN  IF a.r = NullPtr THEN Ret(w, NullPtr)
             ELSE Ret([w EXCEPT !.mi[m.blk].size = size], a.r)

\* a variant of NRT_MemInfo_varsize_realloc that does not look at mi->dtor
NRT_MemInfo_varsize_realloc_unchecked(s, m, size, c) ==
    LET a == NRT_Reallocate(s, s.mi[m.blk].data, size, c)
        w == [a.s EXCEPT !.mi[m.blk].data = a.r]
    IN  IF ~Running(a.s) THEN a
        ELSE IF a.r = NullPtr THEN Ret(w, NullPtr)
        ELSE Ret([w EXCEPT !.mi[m.blk].size = size], a.r)

NRT_MemInfo_varsize_realloc(s, m, size, c) ==
    IF s.mi[m.blk].dtor /= "nrt_varsize_dtor"
    THEN Ret(nrt_fatal_error(s), NullPtr)
    ELSE LET a == NRT_Reallocate(s, s.mi[m.blk].data, size, c)
             w == [a.s EXCEPT !.mi[m.blk].data = a.r]
         IN  IF ~Running(a.s) THEN a
             ELSE IF a.r = NullPtr THEN Ret(w, NullPtr)
             ELSE Ret([w EXCEPT !.mi[m.blk].size = size], a.r)

\* a variant of NRT_MemInfo_varsize_free that clears mi->data whatever ptr is
NRT_MemInfo_varsize_free_clearing(s, m, ptr, c) ==
    LET f == NRT_Free(s, ptr, c)
    IN  IF ~Running(f) THEN f
        ELSE [f EXCEPT !.mi[m.blk].data = NullPtr]

NRT_MemInfo_varsize_free(s, m, ptr, c) ==
    LET f == NRT_Free(s, ptr, c)
    IN  IF ~Running(f) THEN f
        ELSE IF ptr = f.mi[m.blk].data
        THEN [f EXCEPT !.mi[m.blk].data = NullPtr]
        ELSE f

(***************************************************************************)
(* Stable API: memory the caller allocated, wrapped in a MemInfo.          *)
(***************************************************************************)
nrt_manage_memory(s, data, dtor, c) ==
    NRT_MemInfo_new(s, data, 0, "nrt_manage_memory_dtor", dtor, c.ok1, c)

(***************************************************************************)
(* The memory system.                                                      *)
(***************************************************************************)
NRT_MemSys_init(s) == [s EXCEPT !.sys = InitSys]

NRT_MemSys_shutdown(s) == [s EXCEPT !.sys.shutting = 1]

\* a variant of NRT_MemSys_set_allocator that compares the malloc function
\* only
NRT_MemSys_set_allocator_by_malloc(s, malloc_func, realloc_func, free_func) ==
    IF /\ malloc_func /= s.sys.allocator.malloc
       /\ \/ s.sys.stats_alloc /= s.sys.stats_free
          \/ s.sys.stats_mi_alloc /= s.sys.stats_mi_free
    THEN nrt_fatal_error(s)
    ELSE [s EXCEPT !.sys.allocator = [malloc |-> malloc_func,
                                      realloc |-> realloc_func,
                                      free |-> free_func]]

NRT_MemSys_set_allocator(s, malloc_func, realloc_func, free_func) ==
    IF /\ \/ malloc_func /= s.sys.allocator.malloc
          \/ realloc_func /= s.sys.allocator.realloc
          \/ free_func /= s.sys.allocator.free
       /\ \/ s.sys.stats_alloc /= s.sys.stats_free
          \/ s.sys.stats_mi_alloc /= s.sys.stats_mi_free
    THEN nrt_fatal_error(s)
    ELSE [s EXCEPT !.sys.allocator = [malloc |-> malloc_func,
                                      realloc |-> realloc_func,
                                      free |-> free_func]]

(***************************************************************************)
(* The runtime driven by one thread: every action is one call of the API,  *)
(* with the arguments a caller may pass and the choices of the environment.*)
(***************************************************************************)
NoScn == [pc |-> "off", path |-> "none", n |-> 0, acq |-> 0, rel |-> 0,
          h |-> 0]

Threads == 1 .. NThreads
NoThr == [t \in Threads |-> [pc |-> "off", own |-> 0, saw |-> -1,
                              acq |-> 0, destroyed |-> 0]]

Init ==
    /\ TheMSys = InitSys
    /\ heap = [b \in Blocks |-> NoBlock]
    /\ mi = [b \in Blocks |-> NoMI]
    /\ last = NoLast
    /\ proc = "running"
    /\ calls = 0
    /\ scn = NoScn
    /\ thr = NoThr

\* the state after a call, and what the call was and returned
CommitArg(s, op, m, res, arg) ==
    /\ TheMSys' = s.sys
    /\ heap' = s.heap
    /\ mi' = s.mi
    /\ proc' = s.proc
    /\ last' = [op |-> op, mi |-> m, alloc |-> NoBinding, res |-> res,
                arg |-> arg, ev |-> s.ev]
    /\ calls' = calls + 1

Commit(s, op, m, res) == CommitArg(s, op, m, res, 0)

\* handles a caller holds a reference to
LiveHandles == {b \in Blocks : mi[b].init /\ heap[b].st = "live"
                                /\ mi[b].refct > 0}

\* payload blocks no handle points at any more: the caller kept the pointer
Orphans == {b \in Blocks : /\ heap[b].st = "live"
                           /\ ~mi[b].init
                           /\ \A h \in LiveHandles : mi[h].data.blk /= b}

\* the environment's choices that matter to a call with one allocation
OneAlloc == {c \in Choices : c.ok2 /\ ~c.moved}
TwoAllocs == {c \in Choices : ~c.moved /\ (c.ok1 \/ c.ok2)}
NoAlloc == {c \in Choices : c.ok1 /\ c.ok2 /\ ~c.moved}
Realloc == {c \in Choices : c.ok2}

\* a call is made while the process runs
CanCall == proc = "running" /\ calls < MaxCalls

MemSys_init ==
    /\ CanCall
    /\ Commit(NRT_MemSys_init(Cur), "NRT_MemSys_init", 0, NullPtr)
    /\ UNCHANGED <<scn, thr>>

MemSys_shutdown ==
    /\ CanCall
    /\ Commit(NRT_MemSys_shutdown(Cur), "NRT_MemSys_shutdown", 0, NullPtr)
    /\ UNCHANGED <<scn, thr>>

MemSys_set_allocator ==
    /\ CanCall
    /\ \E a \in Allocators :
          LET s == NRT_MemSys_set_allocator(Cur, a.malloc, a.realloc, a.free)
          IN  /\ TheMSys' = s.sys
              /\ proc' = s.proc
              /\ last' = [NoLast EXCEPT !.op = "NRT_MemSys_set_allocator",
                                        !.alloc = a]
              /\ calls' = calls + 1
    /\ UNCHANGED <<heap, mi, scn, thr>>

\* the four NRT_MemSys_get_stats_* functions read a counter
MemSys_get_stats ==
    /\ CanCall
    /\ UNCHANGED vars

MemInfo_alloc ==
    /\ CanCall
    /\ \E size \in Sizes, c \in OneAlloc :
          LET r == NRT_MemInfo_alloc(Cur, size, c)
          IN  Commit(r.s, "NRT_MemInfo_alloc", r.r.blk, r.r)
    /\ UNCHANGED <<scn, thr>>

MemInfo_alloc_external ==
    /\ CanCall
    /\ \E size \in Sizes, a \in ExtAllocators, c \in OneAlloc :
          LET r == NRT_MemInfo_alloc_external(Cur, size, a, c)
          IN  CommitArg(r.s, "NRT_MemInfo_alloc_external", r.r.blk, r.r, a)
    /\ UNCHANGED <<scn, thr>>

MemInfo_alloc_safe ==
    /\ CanCall
    /\ \E size \in Sizes, c \in OneAlloc :
          LET r == NRT_MemInfo_alloc_safe(Cur, size, c)
          IN  Commit(r.s, "NRT_MemInfo_alloc_safe", r.r.blk, r.r)
    /\ UNCHANGED <<scn, thr>>

MemInfo_alloc_dtor_safe ==
    /\ CanCall
    /\ \E size \in Sizes, c \in OneAlloc :
          LET r == NRT_MemInfo_alloc_dtor_safe(Cur, size, UserDtor, c)
          IN  Commit(r.s, "NRT_MemInfo_alloc_dtor_safe", r.r.blk, r.r)
    /\ UNCHANGED <<scn, thr>>

MemInfo_alloc_aligned ==
    /\ CanCall
    /\ \E size \in Sizes, align \in Aligns, c \in OneAlloc :
          LET r == NRT_MemInfo_alloc_aligned(Cur, size, align, c)
          IN  Commit(r.s, "NRT_MemInfo_alloc_aligned", r.r.blk, r.r)
    /\ UNCHANGED <<scn, thr>>

MemInfo_alloc_safe_aligned ==
    /\ CanCall
    /\ \E size \in Sizes, align \in Aligns, c \in OneAlloc :
          LET r == NRT_MemInfo_alloc_safe_aligned(Cur, size, align, c)
          IN  Commit(r.s, "NRT_MemInfo_alloc_safe_aligned", r.r.blk, r.r)
    /\ UNCHANGED <<scn, thr>>

MemInfo_alloc_safe_aligned_external ==
    /\ CanCall
    /\ \E size \in Sizes, align \in Aligns, a \in ExtAllocators,
          c \in OneAlloc :
          LET r == NRT_MemInfo_alloc_safe_aligned_external(Cur, size, align,
                                                           a, c)
          IN  CommitArg(r.s, "NRT_MemInfo_alloc_safe_aligned_external",
                        r.r.blk, r.r, a)
    /\ UNCHANGED <<scn, thr>>

MemInfo_new ==
    /\ CanCall
    /\ \E dtor \in {"NULL", "user_dtor"}, c \in OneAlloc :
          LET r == NRT_MemInfo_new(Cur, ForeignPtr, 16, dtor, NoInfo, c.ok1, c)
          IN  Commit(r.s, "NRT_MemInfo_new", r.r.blk, r.r)
    /\ UNCHANGED <<scn, thr>>

MemInfo_new_varsize ==
    /\ CanCall
    /\ \E size \in Sizes, c \in TwoAllocs :
          LET r == NRT_MemInfo_new_varsize(Cur, size, c)
          IN  Commit(r.s, "NRT_MemInfo_new_varsize", r.r.blk, r.r)
    /\ UNCHANGED <<scn, thr>>

MemInfo_new_varsize_dtor ==
    /\ CanCall
    /\ \E size \in Sizes, c \in TwoAllocs :
          LET r == NRT_MemInfo_new_varsize_dtor(Cur, size, UserDtor, c)
          IN  Commit(r.s, "NRT_MemInfo_new_varsize_dtor", r.r.blk, r.r)
    /\ UNCHANGED <<scn, thr>>

manage_memory ==
    /\ CanCall
    /\ \E c \in OneAlloc :
          LET r == nrt_manage_memory(Cur, ForeignPtr, UserDtor, c)
          IN  Commit(r.s, "nrt_manage_memory", r.r.blk, r.r)
    /\ UNCHANGED <<scn, thr>>

MemInfo_acquire ==
    /\ CanCall
    /\ \E h \in LiveHandles :
          Commit(NRT_MemInfo_acquire(Cur, Base(h)), "NRT_MemInfo_acquire",
                    h, NullPtr)
    /\ UNCHANGED <<scn, thr>>

MemInfo_release ==
    /\ CanCall
    /\ \E h \in LiveHandles, c \in NoAlloc :
          Commit(NRT_MemInfo_release(Cur, Base(h), c), "NRT_MemInfo_release",
                 h, NullPtr)
    /\ UNCHANGED <<scn, thr>>

\* NRT_MemInfo_data, _size, _parent, _refcount, _external_allocator and
\* _dump read the handle
MemInfo_accessor ==
    /\ CanCall
    /\ LiveHandles /= {}
    /\ UNCHANGED vars

MemInfo_varsize_alloc ==
    /\ CanCall
    /\ \E h \in LiveHandles, size \in ResizeSizes, c \in OneAlloc :
          LET r == NRT_MemInfo_varsize_alloc(Cur, Base(h), size, c)
          IN  CommitArg(r.s, "NRT_MemInfo_varsize_alloc", h, r.r, size)
    /\ UNCHANGED <<scn, thr>>

MemInfo_varsize_realloc ==
    /\ CanCall
    /\ \E h \in LiveHandles, size \in ResizeSizes, c \in Realloc :
          LET r == NRT_MemInfo_varsize_realloc(Cur, Base(h), size, c)
          IN  CommitArg(r.s, "NRT_MemInfo_varsize_realloc", h, r.r, size)
    /\ UNCHANGED <<scn, thr>>

MemInfo_varsize_free ==
    /\ CanCall
    /\ \E h \in LiveHandles, c \in NoAlloc :
          \E ptr \in {NullPtr, mi[h].data} \cup {Base(b) : b \in Orphans} :
             Commit(NRT_MemInfo_varsize_free(Cur, Base(h), ptr, c),
                    "NRT_MemInfo_varsize_free", h, ptr)
    /\ UNCHANGED <<scn, thr>>

Construct ==
    \/ MemInfo_alloc
    \/ MemInfo_alloc_external
    \/ MemInfo_alloc_safe
    \/ MemInfo_alloc_dtor_safe
    \/ MemInfo_alloc_aligned
    \/ MemInfo_alloc_safe_aligned
    \/ MemInfo_alloc_safe_aligned_external
    \/ MemInfo_new
    \/ MemInfo_new_varsize
    \/ MemInfo_new_varsize_dtor
    \/ manage_memory

Use ==
    \/ MemInfo_acquire
    \/ MemInfo_release
    \/ MemInfo_accessor
    \/ MemInfo_varsize_alloc
    \/ MemInfo_varsize_realloc
    \/ MemInfo_varsize_free

\* every run of at most MaxCalls calls
Next ==
    \/ MemSys_init
    \/ MemSys_set_allocator
    \/ MemSys_shutdown
    \/ MemSys_get_stats
    \/ Construct
    \/ Use

Spec == Init /\ [][Next]_vars


(***************************************************************************)
(* One handle from construction to its last release: from balanced         *)
(* counters, a construction that succeeds, then n acquires and n + 1       *)
(* releases in any order a caller holding the references can make them.    *)
(***************************************************************************)
LeakPaths ==
    {"NRT_MemInfo_alloc", "NRT_MemInfo_alloc_safe",
     "NRT_MemInfo_alloc_dtor_safe", "NRT_MemInfo_alloc_aligned",
     "NRT_MemInfo_alloc_safe_aligned", "NRT_MemInfo_alloc_external",
     "NRT_MemInfo_alloc_safe_aligned_external", "NRT_MemInfo_new_varsize",
     "NRT_MemInfo_new_varsize_dtor", "nrt_manage_memory"}

\* every allocation of the construction succeeds
AllOk == CHOOSE c \in Choices : c.ok1 /\ c.ok2 /\ ~c.moved

ConstructBy(path, s) ==
    CASE path = "NRT_MemInfo_alloc" -> NRT_MemInfo_alloc(s, 16, AllOk)
      [] path = "NRT_MemInfo_alloc_safe" -> NRT_MemInfo_alloc_safe(s, 16, AllOk)
      [] path = "NRT_MemInfo_alloc_dtor_safe" ->
            NRT_MemInfo_alloc_dtor_safe(s, 16, UserDtor, AllOk)
      [] path = "NRT_MemInfo_alloc_aligned" ->
            NRT_MemInfo_alloc_aligned(s, 16, 32, AllOk)
      [] path = "NRT_MemInfo_alloc_safe_aligned" ->
            NRT_MemInfo_alloc_safe_aligned(s, 16, 32, AllOk)
      [] path = "NRT_MemInfo_alloc_external" ->
            NRT_MemInfo_alloc_external(s, 16, 1, AllOk)
      [] path = "NRT_MemInfo_alloc_safe_aligned_external" ->
            NRT_MemInfo_alloc_safe_aligned_external(s, 16, 32, 1, AllOk)
      [] path = "NRT_MemInfo_new_varsize" ->
            NRT_MemInfo_new_varsize(s, 16, AllOk)
      [] path = "NRT_MemInfo_new_varsize_dtor" ->
            NRT_MemInfo_new_varsize_dtor(s, 16, UserDtor, AllOk)
      [] OTHER -> nrt_manage_memory(s, ForeignPtr, UserDtor, AllOk)

InitLeak ==
    /\ \E a \in Allocators, k \in 0 .. 1, j \in 0 .. 1 :
          TheMSys = [InitSys EXCEPT !.allocator = a,
                                    !.stats_alloc = k, !.stats_free = k,
                                    !.stats_mi_alloc = j, !.stats_mi_free = j]
    /\ heap = [b \in Blocks |-> NoBlock]
    /\ mi = [b \in Blocks |-> NoMI]
    /\ last = NoLast
    /\ proc = "running"
    /\ calls = 0
    /\ scn = [NoScn EXCEPT !.pc = "start"]
    /\ thr = NoThr

\* the construction's result r committed
LeakCommit(path, r, n) ==
    /\ Commit(r.s, path, r.r.blk, r.r)
    /\ scn' = [pc |-> "run", path |-> path, n |-> n, acq |-> 0, rel |-> 0,
               h |-> r.r.blk]

LeakConstruct ==
    /\ scn.pc = "start"
    /\ \E path \in LeakPaths, n \in 0 .. MaxN :
          LeakCommit(path, ConstructBy(path, Cur), n)
    /\ UNCHANGED thr

LeakAcquire ==
    /\ scn.pc = "run"
    /\ scn.acq < scn.n
    /\ Commit(NRT_MemInfo_acquire(Cur, Base(scn.h)), "NRT_MemInfo_acquire",
              scn.h, NullPtr)
    /\ scn' = [scn EXCEPT !.acq = @ + 1]
    /\ UNCHANGED thr

\* the release of the last reference comes after every acquire
LeakRelease ==
    /\ scn.pc = "run"
    /\ mi[scn.h].refct > 1 \/ scn.acq = scn.n
    /\ \E c \in NoAlloc :
          Commit(NRT_MemInfo_release(Cur, Base(scn.h), c),
                 "NRT_MemInfo_release", scn.h, NullPtr)
    /\ scn' = [scn EXCEPT !.rel = @ + 1,
                          !.pc = IF scn.rel = scn.n THEN "done" ELSE "run"]
    /\ UNCHANGED thr

NextLeak ==
    \/ LeakConstruct
    \/ LeakAcquire
    \/ LeakRelease

SpecLeak == InitLeak /\ [][NextLeak]_vars

(***************************************************************************)
(* Several threads acquire and release one handle.  Each thread starts     *)
(* with one reference, takes up to MaxAcq more and releases only what it   *)
(* owns.  A step is one access of the atomic refct, or the call of         *)
(* NRT_MemInfo_call_dtor.                                                  *)
(***************************************************************************)
Shared == 1

RECURSIVE AcquireN(_, _, _)
AcquireN(s, m, n) ==
    IF n = 0 THEN s ELSE AcquireN(NRT_MemInfo_acquire(s, m), m, n - 1)

\* the handle the threads share, with one reference for each of them
SharedHandle ==
    LET e == [sys |-> InitSys, heap |-> [b \in Blocks |-> NoBlock],
              mi |-> [b \in Blocks |-> NoMI], ev |-> <<>>,
              proc |-> "running"]
        r == NRT_MemInfo_alloc_dtor_safe(e, 16, UserDtor, AllOk)
    IN  AcquireN(r.s, r.r, NThreads - 1)

InitConc ==
    /\ TheMSys = SharedHandle.sys
    /\ heap = SharedHandle.heap
    /\ mi = SharedHandle.mi
    /\ last = NoLast
    /\ proc = "running"
    /\ calls = 0
    /\ scn = NoScn
    /\ thr = [t \in Threads |-> [pc |-> "idle", own |-> 1, saw |-> -1,
                                 acq |-> 0, destroyed |-> 0]]

\* a read of a handle that was freed is undefined; the assert aborts on 0
AssertRefct(t, to) ==
    /\ thr[t].pc = "idle"
    /\ thr[t].own > 0
    /\ IF ~(mi[Shared].init /\ heap[Shared].st = "live")
       THEN proc' = "crashed" /\ UNCHANGED thr
       ELSE IF mi[Shared].refct > 0
       THEN proc' = proc /\ thr' = [thr EXCEPT ![t].pc = to]
       ELSE proc' = "aborted" /\ UNCHANGED thr
    /\ UNCHANGED <<TheMSys, heap, mi, last, calls, scn>>

\* NRT_MemInfo_acquire: assert (mi->refct > 0)
AcquireAssert(t) ==
    /\ proc = "running"
    /\ thr[t].acq < MaxAcq
    /\ AssertRefct(t, "acquire")

\* an increment that another thread's write overtakes
LostIncrement(v) == v

\* what mi->refct++ stores, in one atomic step
PostIncrement(v) == v + 1

\* NRT_MemInfo_acquire: mi->refct++
AcquireIncrement(t) ==
    /\ proc = "running"
    /\ thr[t].pc = "acquire"
    /\ mi' = [mi EXCEPT ![Shared].refct = PostIncrement(@)]
    /\ thr' = [thr EXCEPT ![t].pc = "idle", ![t].own = @ + 1,
                          ![t].acq = @ + 1]
    /\ UNCHANGED <<TheMSys, heap, last, proc, calls, scn>>

\* NRT_MemInfo_release: assert (mi->refct > 0)
ReleaseAssert(t) ==
    /\ proc = "running"
    /\ AssertRefct(t, "release")

\* a decrement that yields the value before it
PostDecrement(v) == [stored |-> v - 1, seen |-> v]

\* what --mi->refct stores and what it yields, in one atomic step
PreDecrement(v) == [stored |-> v - 1, seen |-> v - 1]

\* NRT_MemInfo_release: (--mi->refct) == 0
ReleaseDecrement(t) ==
    /\ proc = "running"
    /\ thr[t].pc = "release"
    /\ LET d == PreDecrement(mi[Shared].refct)
       IN  /\ mi' = [mi EXCEPT ![Shared].refct = d.stored]
           /\ thr' = [thr EXCEPT ![t].own = @ - 1,
                                 ![t].saw = d.seen,
                                 ![t].pc = IF d.seen = 0 THEN "zero"
                                           ELSE "idle"]
    /\ UNCHANGED <<TheMSys, heap, last, proc, calls, scn>>

\* NRT_MemInfo_release: NRT_MemInfo_call_dtor(mi), by the thread that saw 0
ReleaseCallDtor(t) ==
    /\ proc = "running"
    /\ thr[t].pc = "zero"
    /\ \E c \in NoAlloc :
          LET s == NRT_MemInfo_call_dtor(Cur, Base(Shared), c)
          IN  /\ TheMSys' = s.sys
              /\ heap' = s.heap
              /\ mi' = s.mi
              /\ proc' = s.proc
              /\ last' = [last EXCEPT !.op = "NRT_MemInfo_call_dtor",
                                      !.mi = Shared,
                                      !.ev = @ \o s.ev]
    /\ thr' = [thr EXCEPT ![t].pc = "idle", ![t].destroyed = @ + 1]
    /\ UNCHANGED <<calls, scn>>

\* NRT_MemInfo_refcount by a thread that owns a reference: last.arg is what
\* it returned; the read of a handle that was freed is undefined
RefcountRead(t) ==
    /\ proc = "running"
    /\ thr[t].pc = "idle"
    /\ thr[t].own > 0
    /\ IF mi[Shared].init /\ heap[Shared].st = "live"
       THEN /\ last' = [last EXCEPT
                          !.op = "NRT_MemInfo_refcount",
                          !.mi = Shared,
                          !.arg = NRT_MemInfo_refcount(Cur, Base(Shared))]
            /\ proc' = proc
       ELSE proc' = "crashed" /\ UNCHANGED last
    /\ UNCHANGED <<TheMSys, heap, mi, thr, calls, scn>>

NextConc ==
    \E t \in Threads :
        \/ RefcountRead(t)
        \/ AcquireAssert(t)
        \/ AcquireIncrement(t)
        \/ ReleaseAssert(t)
        \/ ReleaseDecrement(t)
        \/ ReleaseCallDtor(t)

SpecConc == InitConc /\ [][NextConc]_vars

(***************************************************************************)
(* Properties of the single-threaded runtime (Spec).  A step is one call:  *)
(* last' names the call, the unprimed variables are the state before it.   *)
(***************************************************************************)
\* how often a call invoked the destructor attached to handle h
DtorsOf(ev, h) ==
    Cardinality({i \in DOMAIN ev : ev[i].e = "dtor" /\ ev[i].blk = h})

Released(h) == last'.op = "NRT_MemInfo_release" /\ last'.mi = h

Acquired(h) == last'.op = "NRT_MemInfo_acquire" /\ last'.mi = h

Balanced(sys) ==
    sys.stats_alloc = sys.stats_free /\ sys.stats_mi_alloc = sys.stats_mi_free

SameStats(a, b) ==
    /\ a.stats_alloc = b.stats_alloc
    /\ a.stats_free = b.stats_free
    /\ a.stats_mi_alloc = b.stats_mi_alloc
    /\ a.stats_mi_free = b.stats_mi_free

C1_Step ==
    \A h \in Blocks :
        LET last_ref == /\ Released(h)
                        /\ mi[h].refct = 1
                        /\ mi[h].dtor /= "NULL"
                        /\ TheMSys.shutting = 0
        IN  /\ DtorsOf(last'.ev, h) = IF last_ref THEN 1 ELSE 0
            /\ last_ref => ~(mi'[h].init /\ mi'[h].refct > 0)

\* C1: a call invokes the destructor attached to a handle exactly when it is
\* the NRT_MemInfo_release that takes the handle's refcount from 1 to 0 while
\* the system is not shutting down, and then exactly once; no call invokes it
\* while the refcount stays positive, and after it the handle is gone, so it
\* is never invoked a second time.
C1_DtorOnceOnLastRelease == [][C1_Step]_vars

C1_Witness ==
    /\ last.op = "NRT_MemInfo_release"
    /\ DtorsOf(last.ev, last.mi) = 1
    /\ proc = "running"

InitOps ==
    {"NRT_MemInfo_alloc", "NRT_MemInfo_alloc_external", "NRT_MemInfo_alloc_safe",
     "NRT_MemInfo_alloc_dtor_safe", "NRT_MemInfo_alloc_aligned",
     "NRT_MemInfo_alloc_safe_aligned", "NRT_MemInfo_alloc_safe_aligned_external",
     "NRT_MemInfo_new", "NRT_MemInfo_new_varsize",
     "NRT_MemInfo_new_varsize_dtor", "nrt_manage_memory"}

C2_Step ==
    /\ (last'.op \in InitOps /\ last'.res /= NullPtr /\ proc' = "running")
          => (mi'[last'.res.blk].init /\ mi'[last'.res.blk].refct = 1)
    /\ \A h \in Blocks :
          (mi[h].init /\ mi[h].refct > 0) =>
              IF Acquired(h) THEN mi'[h].refct = mi[h].refct + 1
              ELSE IF Released(h)
              THEN mi[h].refct > 1 => mi'[h].refct = mi[h].refct - 1
              ELSE mi'[h].init /\ mi'[h].refct = mi[h].refct

\* C2: the refcount of a handle is 1 right after the allocation variant that
\* initialised it; NRT_MemInfo_acquire adds exactly 1; an NRT_MemInfo_release
\* that does not reach zero subtracts exactly 1; every other call leaves the
\* refcount of every handle as it was.
C2_RefcountSteps == [][C2_Step]_vars

C2_Witness ==
    /\ last.op = "NRT_MemInfo_acquire"
    /\ mi[last.mi].refct = 2
    /\ proc = "running"

C5_Step ==
    last'.op = "NRT_MemSys_set_allocator" =>
        LET differs == last'.alloc /= TheMSys.allocator
            aborts == proc' = "aborted"
        IN  /\ aborts <=> (differs /\ ~Balanced(TheMSys))
            /\ aborts => TheMSys'.allocator = TheMSys.allocator
            /\ ~aborts => TheMSys'.allocator = last'.alloc

\* C5: NRT_MemSys_set_allocator aborts, leaving the binding as it was, if and
\* only if the supplied triple differs from the binding in some function and a
\* counter pair is unbalanced; otherwise it does not abort and the binding is
\* the supplied triple afterwards.
C5_SetAllocatorAborts == [][C5_Step]_vars

C5_Witness ==
    /\ last.op = "NRT_MemSys_set_allocator"
    /\ proc = "aborted"
    /\ TheMSys.allocator /= last.alloc

\* C6: the global binding changes only in a state where no live block was
\* obtained through it.
C6_SwapOnlyWithoutLiveBlocks ==
    [][TheMSys'.allocator /= TheMSys.allocator =>
          \A b \in Blocks : ~(heap[b].st = "live"
                              /\ heap[b].by = TheMSys.allocator)]_vars

C7_Step ==
    \A h \in Blocks :
        (Released(h) /\ mi[h].refct = 1 /\ TheMSys.shutting = 1) =>
            /\ DtorsOf(last'.ev, h) = 0
            /\ heap'[h].st /= "live"
            /\ mi[h].data.blk \in Blocks => heap'[mi[h].data.blk].st /= "live"

\* C7: after shutdown, the release that takes a handle's refcount to zero
\* invokes no destructor and returns the handle's storage, the separate
\* payload block of a variable-size handle included, to its allocator.
C7_ShutdownStillReclaims == [][C7_Step]_vars

C8_Step ==
    TheMSys.shutting = 1 =>
        IF last'.op = "NRT_MemSys_init"
        THEN TheMSys'.shutting = 0
        ELSE /\ TheMSys'.shutting = 1
             /\ \A h \in Blocks : DtorsOf(last'.ev, h) = 0

\* C8: once the shutdown flag is set, every call other than NRT_MemSys_init
\* leaves it set and invokes no destructor; NRT_MemSys_init clears it.
C8_ShutdownUntilInit == [][C8_Step]_vars

C8_Witness ==
    /\ TheMSys.shutting = 1
    /\ last.op = "NRT_MemInfo_release"
    /\ \E i \in DOMAIN last.ev : last.ev[i].e = "mi_free"

\* C8 as stated: once the shutdown flag is set, every call, NRT_MemSys_init
\* included, leaves it set and invokes no destructor.
C8_ShutdownIrreversible ==
    [][TheMSys.shutting = 1 =>
          /\ TheMSys'.shutting = 1
          /\ \A h \in Blocks : DtorsOf(last'.ev, h) = 0]_vars

AllocOps ==
    {"NRT_MemInfo_alloc", "NRT_MemInfo_alloc_external", "NRT_MemInfo_alloc_safe",
     "NRT_MemInfo_alloc_dtor_safe", "NRT_MemInfo_alloc_aligned",
     "NRT_MemInfo_alloc_safe_aligned", "NRT_MemInfo_alloc_safe_aligned_external",
     "NRT_MemInfo_new", "NRT_MemInfo_new_varsize"}

\* C9: an allocation variant whose allocation failed returns the null handle
\* normally, without running NRT_MemInfo_init, without incrementing any of
\* the four counters and without invoking a destructor.
C9_FailedAllocLeavesNoTrace ==
    [][(last'.op \in AllocOps /\ last'.res = NullPtr) =>
          /\ proc' = "running"
          /\ SameStats(TheMSys', TheMSys)
          /\ \A h \in Blocks : DtorsOf(last'.ev, h) = 0]_vars

\* C10: an NRT_MemInfo_varsize_alloc on a variable-size handle that returns
\* null leaves the handle's data pointer and size as they were.
C10_FailedVarsizeAllocKeepsData ==
    [][\A h \in Blocks :
          (/\ last'.op = "NRT_MemInfo_varsize_alloc"
           /\ last'.mi = h
           /\ mi[h].dtor = "nrt_varsize_dtor"
           /\ last'.res = NullPtr) =>
              /\ mi'[h].data = mi[h].data
              /\ mi'[h].size = mi[h].size]_vars

(***************************************************************************)
(* Properties of one handle's life (SpecLeak) and of the threads sharing   *)
(* a handle (SpecConc).                                                    *)
(***************************************************************************)
\* C4: from balanced counters and no shutdown, a handle constructed on any
\* of the construction paths, acquired n times and released n + 1 times
\* leaves both counter pairs balanced.
C4_LeakLaw ==
    scn.pc = "done" =>
        /\ proc = "running"
        /\ scn.acq = scn.n /\ scn.rel = scn.n + 1
        /\ TheMSys.stats_mi_alloc = TheMSys.stats_mi_free
        /\ TheMSys.stats_alloc = TheMSys.stats_free

C4_Witness ==
    /\ scn.pc = "done"
    /\ scn.path = "NRT_MemInfo_alloc_external"
    /\ scn.n = 2
    /\ TheMSys.stats_free = 2

SawZero == {t \in Threads : thr[t].saw = 0}

Destroyers == {t \in Threads : thr[t].destroyed > 0}

AllReleased == \A t \in Threads : thr[t].own = 0 /\ thr[t].pc = "idle"

EventsOf(e) ==
    Cardinality({i \in DOMAIN last.ev : last.ev[i].e = e
                                        /\ last.ev[i].blk = Shared})

\* C3: in every interleaving at most one thread sees its decrement reach
\* zero; only that thread calls NRT_MemInfo_call_dtor, and once; the handle
\* is destroyed only after every owned reference is released, and once they
\* all are it has been destroyed exactly once; no thread touches the handle
\* after its destruction.
C3_OneThreadDestroys ==
    /\ proc = "running"
    /\ Cardinality(SawZero) <= 1
    /\ Destroyers \subseteq SawZero
    /\ \A t \in Threads : thr[t].destroyed <= 1
    /\ EventsOf("mi_free") = Cardinality(Destroyers)
    /\ EventsOf("dtor") = Cardinality(Destroyers)
    /\ Destroyers /= {} => AllReleased
    /\ AllReleased => Cardinality(Destroyers) = 1

C3_Witness ==
    /\ EventsOf("mi_free") = 1
    /\ \E t \in Destroyers : \E u \in Threads \ {t} : thr[u].acq > 0

(***************************************************************************)
(* Properties of the resizable buffer API and of the allocators (Spec).    *)
(***************************************************************************)
ResizeOps == {"NRT_MemInfo_varsize_alloc", "NRT_MemInfo_varsize_realloc"}

VarsizePaths == {"NRT_MemInfo_new_varsize", "NRT_MemInfo_new_varsize_dtor"}

IsVarsize(m) == m.dtor = "nrt_varsize_dtor"

C11_Step ==
    /\ \A h \in Blocks :
          (last'.op \in ResizeOps /\ last'.mi = h) =>
              IF IsVarsize(mi[h])
              THEN proc' /= "aborted"
              ELSE /\ proc' = "aborted"
                   /\ last'.ev = <<>>
                   /\ TheMSys' = TheMSys /\ heap' = heap /\ mi' = mi
    /\ (last'.op \in InitOps /\ last'.res /= NullPtr /\ proc' = "running")
          => (IsVarsize(mi'[last'.res.blk]) <=> last'.op \in VarsizePaths)
    /\ \A h \in Blocks :
          (mi[h].init /\ mi'[h].init) => mi'[h].dtor = mi[h].dtor

\* C11: NRT_MemInfo_varsize_alloc and NRT_MemInfo_varsize_realloc on a handle
\* whose destructor is not nrt_varsize_dtor abort with nothing allocated,
\* freed or written; on a handle whose destructor is nrt_varsize_dtor they
\* do not abort.  The handles with that destructor are those of
\* NRT_MemInfo_new_varsize and NRT_MemInfo_new_varsize_dtor, for life.
C11_ResizeNeedsVarsize == [][C11_Step]_vars

C11_Witness ==
    /\ last.op = "NRT_MemInfo_varsize_realloc"
    /\ proc = "aborted"
    /\ mi[last.mi].init /\ ~IsVarsize(mi[last.mi])

\* C12: NRT_MemInfo_varsize_free on a handle whose destructor is not
\* nrt_varsize_dtor aborts, with no block freed and no handle written.
C12_VarsizeFreeNeedsVarsize ==
    [][\A h \in Blocks :
          (/\ last'.op = "NRT_MemInfo_varsize_free"
           /\ last'.mi = h
           /\ ~IsVarsize(mi[h])) =>
              /\ proc' = "aborted"
              /\ heap' = heap
              /\ mi' = mi]_vars

\* C13: in every reachable state, a handle with a positive refcount has a
\* data pointer that is not null.
C13_LiveHandleHasData ==
    \A h \in Blocks :
        (mi[h].init /\ mi[h].refct > 0) => mi[h].data /= NullPtr

(***************************************************************************)
(* More properties of the threads sharing a handle (SpecConc).             *)
(***************************************************************************)
\* C14: while threads call acquire, release and refcount only on a handle
\* they own a reference to, no assertion of NRT_MemInfo_acquire or
\* NRT_MemInfo_release fails, no call reads a freed handle, the refcount is
\* positive as long as a thread owns a reference, and NRT_MemInfo_refcount
\* never returns 0.
C14_NeverObservedZero ==
    /\ proc /= "aborted"
    /\ proc /= "crashed"
    /\ (\E t \in Threads : thr[t].own > 0) =>
           (mi[Shared].init /\ mi[Shared].refct > 0)
    /\ last.op = "NRT_MemInfo_refcount" => last.arg >= 1

C14_Witness ==
    /\ last.op = "NRT_MemInfo_refcount"
    /\ last.arg = 1
    /\ \E t \in Threads : thr[t].own = 0 /\ thr[t].saw >= 1

(***************************************************************************)
(* More properties of the single-threaded runtime (Spec).                  *)
(***************************************************************************)
ExternalPaths ==
    {"NRT_MemInfo_alloc_external", "NRT_MemInfo_alloc_safe_aligned_external"}

\* the events e of a call that are about block b
EventsAt(ev, e, b) == {i \in DOMAIN ev : ev[i].e = e /\ ev[i].blk = b}

C15_Step ==
    /\ (last'.op \in InitOps /\ last'.res /= NullPtr /\ proc' = "running") =>
          LET b == last'.res.blk
              a == mi'[b].external_allocator
          IN  /\ heap'[b].ext = a
              /\ IF last'.op \in ExternalPaths THEN a = last'.arg
                                                ELSE a = NoExt
    /\ \A h \in Blocks :
          (Released(h) /\ mi[h].refct = 1 /\ proc' = "running") =>
              LET a == mi[h].external_allocator
                  frees == EventsAt(last'.ev, "free", h)
                  through == EventsAt(last'.ev, "external_free", h)
              IN  /\ Cardinality(frees) = 1
                  /\ \A i \in frees : /\ last'.ev[i].ext = a
                                      /\ last'.ev[i].fext = a
                  /\ IF a = NoExt THEN through = {}
                     ELSE /\ Cardinality(through) = 1
                          /\ \A i \in through :
                                /\ last'.ev[i].fext = a
                                /\ last'.ev[i].opaque = ExtOpaque(a)
                  /\ TheMSys'.stats_mi_free = TheMSys.stats_mi_free + 1

\* C15: the block of a handle created with an external allocator comes from
\* that allocator's malloc, and the release that destroys the handle passes
\* it once to that allocator's free, with that allocator's opaque_data, and
\* not to NRT_Free; the block of a handle created without one is freed once
\* by NRT_Free through the global binding; either way stats_mi_free grows by
\* exactly 1.
C15_FreedByItsAllocator == [][C15_Step]_vars

C15_Witness ==
    /\ last.op = "NRT_MemInfo_release"
    /\ proc = "running"
    /\ \E i \in DOMAIN last.ev :
          /\ last.ev[i].e = "external_free"
          /\ last.ev[i].opaque = sample_external_opaque_data

\* C16: an allocation through the sample allocator with its own token that
\* returns a handle returns an initialised one, and an allocation through an
\* allocator with another token returns null normally and leaves the four
\* counters as they were.
C16_TokenChecked ==
    [][last'.op \in ExternalPaths =>
          IF ExtOpaque(last'.arg) = sample_external_opaque_data
          THEN (last'.res /= NullPtr /\ proc' = "running") =>
                   (/\ mi'[last'.res.blk].init
                    /\ mi'[last'.res.blk].external_allocator = last'.arg)
          ELSE /\ last'.res = NullPtr
               /\ proc' = "running"
               /\ SameStats(TheMSys', TheMSys)]_vars

\* the state after the call, as the accessors see it
Post == [sys |-> TheMSys', heap |-> heap', mi |-> mi', ev |-> <<>>,
         proc |-> proc']

C17_Step ==
    \A h \in Blocks :
        (/\ last'.op \in ResizeOps
         /\ last'.mi = h
         /\ IsVarsize(mi[h])
         /\ last'.res /= NullPtr
         /\ proc' = "running") =>
            /\ NRT_MemInfo_size(Post, Base(h)) = last'.arg
            /\ NRT_MemInfo_data(Post, Base(h)) = last'.res
            /\ IsLiveBase(Post, last'.res)
            /\ heap'[h] = heap[h]
            /\ mi'[h].init
            /\ mi'[h].refct = mi[h].refct
            /\ mi'[h].dtor = mi[h].dtor
            /\ mi'[h].dtor_info = mi[h].dtor_info
            /\ mi'[h].external_allocator = mi[h].external_allocator

\* C17: after an NRT_MemInfo_varsize_alloc or NRT_MemInfo_varsize_realloc
\* with size s on a variable-size handle that returned a pointer other than
\* null, NRT_MemInfo_size is s, NRT_MemInfo_data is the pointer returned, a
\* live block, and the handle is the same record with the same refcount,
\* destructor and destructor context.
C17_ResizeStoresSizeAndData == [][C17_Step]_vars

C17_Witness ==
    /\ last.op = "NRT_MemInfo_varsize_alloc"
    /\ last.arg = 0
    /\ last.res /= NullPtr
    /\ proc = "running"
    /\ mi[last.mi].size = 0
    /\ mi[last.mi].data = last.res

C18_Step ==
    \A h \in Blocks :
        (/\ last'.op = "NRT_MemInfo_varsize_free"
         /\ last'.mi = h
         /\ proc' = "running") =>
            LET ptr == last'.res
                frees == EventsAt(last'.ev, "free", ptr.blk)
            IN  /\ mi'[h].data = IF ptr = mi[h].data THEN NullPtr
                                 ELSE mi[h].data
                /\ IsLiveBase(Cur, ptr) =>
                      /\ heap'[ptr.blk].st /= "live"
                      /\ Cardinality(frees) = 1
                      /\ \A i \in frees : /\ last'.ev[i].fext = NoExt
                                          /\ last'.ev[i].fr = TheMSys.allocator
                /\ TheMSys'.stats_free = TheMSys.stats_free + 1
                /\ heap'[h] = heap[h]
                /\ mi'[h].init
                /\ mi'[h].refct = mi[h].refct
                /\ mi'[h].size = mi[h].size
                /\ mi'[h].dtor = mi[h].dtor
                /\ mi'[h].dtor_info = mi[h].dtor_info

\* C18: NRT_MemInfo_varsize_free(mi, ptr) hands ptr to NRT_Free, so to the
\* free of the global binding, and sets mi->data to null if and only if ptr
\* equals mi->data; either way the handle is not destroyed and its refcount,
\* size, destructor and destructor context are unchanged.
C18_VarsizeFreeFrame == [][C18_Step]_vars

C18_Witness ==
    /\ last.op = "NRT_MemInfo_varsize_free"
    /\ last.res /= NullPtr
    /\ proc = "running"
    /\ IsVarsize(mi[last.mi])
    /\ mi[last.mi].refct > 0
    /\ mi[last.mi].data = NullPtr
    /\ EventsAt(last.ev, "free", last.res.blk) /= {}

(***************************************************************************)
(* The aligned variants, for the addresses, sizes and alignments a caller  *)
(* and an allocator can produce: the offset computation on any address,    *)
(* and the three aligned allocation variants on a heap with blocks in use. *)
(* scn holds the payload start before alignment, the alignment and the     *)
(* offset applied.                                                         *)
(***************************************************************************)
MaxAddr == 70
MaxLog == 5
MaxInUse == 3

PowersOfTwo == {2 ^ k : k \in 0 .. MaxLog}

AlignSizes == {0, 1, 16}

AlignedPaths ==
    {"NRT_MemInfo_alloc_aligned", "NRT_MemInfo_alloc_safe_aligned",
     "NRT_MemInfo_alloc_safe_aligned_external"}

AlignedBy(path, s, size, align) ==
    CASE path = "NRT_MemInfo_alloc_aligned" ->
            NRT_MemInfo_alloc_aligned(s, size, align, AllOk)
      [] path = "NRT_MemInfo_alloc_safe_aligned" ->
            NRT_MemInfo_alloc_safe_aligned(s, size, align, AllOk)
      [] OTHER ->
            NRT_MemInfo_alloc_safe_aligned_external(s, size, align, 1, AllOk)

InitAlign ==
    /\ TheMSys = InitSys
    /\ \E k \in 0 .. MaxInUse :
          heap = [b \in Blocks |->
                     IF b <= k THEN [NoBlock EXCEPT !.st = "live", !.by = libc]
                     ELSE NoBlock]
    /\ mi = [b \in Blocks |-> NoMI]
    /\ last = NoLast
    /\ proc = "running"
    /\ calls = 0
    /\ scn = [pc |-> "start", intptr |-> 0, align |-> 1, offset |-> 0]
    /\ thr = NoThr

\* lines 224-233 of nrt_allocate_meminfo_and_data_align on any address
AlignCompute ==
    /\ scn.pc = "start"
    /\ \E intptr \in 0 .. MaxAddr, align \in PowersOfTwo :
          scn' = [pc |-> "computed", intptr |-> intptr, align |-> align,
                  offset |-> AlignOffset(intptr, align)]
    /\ UNCHANGED <<TheMSys, heap, mi, last, proc, calls, thr>>

\* the call's result r committed, with the payload start before alignment
\* and the offset the call applied to it
AlignCommit(path, r, size, align) ==
    /\ CommitArg(r.s, path, r.r.blk, r.r, size)
    /\ scn' = [pc |-> "allocated",
               intptr |-> PtrAddr(PtrAdd(r.r, SizeofMemInfo)),
               align |-> align,
               offset |-> PtrAddr(NRT_MemInfo_data(r.s, r.r))
                             - PtrAddr(PtrAdd(r.r, SizeofMemInfo))]

AlignAlloc ==
    /\ scn.pc = "start"
    /\ \E path \in AlignedPaths, size \in AlignSizes, align \in PowersOfTwo :
          AlignCommit(path, AlignedBy(path, Cur, size, align), size, align)
    /\ UNCHANGED thr

NextAlign ==
    \/ AlignCompute
    \/ AlignAlloc

SpecAlign == InitAlign /\ [][NextAlign]_vars

\* C19: for every payload start and every alignment that is a power of two,
\* the data pointer of the aligned variants is a multiple of the alignment,
\* and the offset applied to the payload start is the smallest offset that
\* is not negative and makes it so: 0 when the start is aligned, otherwise
\* the alignment less the remainder.
C19_AlignmentLaw ==
    scn.pc \in {"computed", "allocated"} =>
        LET remainder == scn.intptr % scn.align
        IN  /\ (scn.intptr + scn.offset) % scn.align = 0
            /\ scn.offset >= 0
            /\ \A o \in 0 .. scn.offset - 1 :
                  (scn.intptr + o) % scn.align /= 0
            /\ scn.offset = IF remainder = 0 THEN 0
                            ELSE scn.align - remainder
            /\ scn.pc = "allocated" =>
                  /\ proc = "running"
                  /\ PtrAddr(mi[last.mi].data) % scn.align = 0
                  /\ mi[last.mi].data.blk = last.mi
                  /\ mi[last.mi].data.off = SizeofMemInfo + scn.offset

C19_Witness ==
    /\ scn.pc = "allocated"
    /\ scn.align = 32
    /\ scn.offset = 16
    /\ mi[last.mi].data.off = SizeofMemInfo + 16

(***************************************************************************)
(* One handle of a safe variant, from its allocation to the release that   *)
(* destroys it, for payloads around the 256 bytes the fills are cut at;    *)
(* NRT_MemSys_shutdown may come before the release.  scn holds the         *)
(* variant, the size, the handle and its data pointer.                     *)
(***************************************************************************)
SafePaths ==
    {"NRT_MemInfo_alloc_safe", "NRT_MemInfo_alloc_dtor_safe",
     "NRT_MemInfo_alloc_safe_aligned",
     "NRT_MemInfo_alloc_safe_aligned_external"}

FillSizes == {0, 1, 16, 255, 256, 257, 300}

FillAligns == {8, 32}

SafeBy(path, s, size, align) ==
    CASE path = "NRT_MemInfo_alloc_safe" ->
            NRT_MemInfo_alloc_safe(s, size, AllOk)
      [] path = "NRT_MemInfo_alloc_dtor_safe" ->
            NRT_MemInfo_alloc_dtor_safe(s, size, UserDtor, AllOk)
      [] path = "NRT_MemInfo_alloc_safe_aligned" ->
            NRT_MemInfo_alloc_safe_aligned(s, size, align, AllOk)
      [] OTHER ->
            NRT_MemInfo_alloc_safe_aligned_external(s, size, align, 1, AllOk)

InitFill ==
    /\ \E a \in Allocators : TheMSys = [InitSys EXCEPT !.allocator = a]
    /\ heap = [b \in Blocks |-> NoBlock]
    /\ mi = [b \in Blocks |-> NoMI]
    /\ last = NoLast
    /\ proc = "running"
    /\ calls = 0
    /\ scn = [pc |-> "start", path |-> "none", size |-> 0, h |-> 0,
              data |-> NullPtr]
    /\ thr = NoThr

\* the construction's result r committed
FillCommit(path, r, size) ==
    /\ CommitArg(r.s, path, r.r.blk, r.r, size)
    /\ scn' = [pc |-> "live", path |-> path, size |-> size, h |-> r.r.blk,
               data |-> NRT_MemInfo_data(r.s, r.r)]

FillConstruct ==
    /\ scn.pc = "start"
    /\ \E path \in SafePaths, size \in FillSizes, align \in FillAligns :
          FillCommit(path, SafeBy(path, Cur, size, align), size)
    /\ UNCHANGED thr

FillShutdown ==
    /\ scn.pc \in {"start", "live"}
    /\ TheMSys.shutting = 0
    /\ Commit(NRT_MemSys_shutdown(Cur), "NRT_MemSys_shutdown", 0, NullPtr)
    /\ UNCHANGED <<scn, thr>>

FillRelease ==
    /\ scn.pc = "live"
    /\ \E c \in NoAlloc :
          Commit(NRT_MemInfo_release(Cur, Base(scn.h), c),
                 "NRT_MemInfo_release", scn.h, NullPtr)
    /\ scn' = [scn EXCEPT !.pc = "released"]
    /\ UNCHANGED thr

NextFill ==
    \/ FillConstruct
    \/ FillShutdown
    \/ FillRelease

SpecFill == InitFill /\ [][NextFill]_vars

Fills(ev) == {i \in DOMAIN ev : ev[i].e = "fill"}

\* the call wrote `byte` to the first min(size, 256) bytes of the payload
\* and nothing else
FilledWith(ev, byte) ==
    IF MIN(scn.size, 256) = 0 THEN Fills(ev) = {}
    ELSE /\ Cardinality(Fills(ev)) = 1
         /\ \A i \in Fills(ev) : /\ ev[i].at = scn.data
                                 /\ ev[i].byte = byte
                                 /\ ev[i].n = MIN(scn.size, 256)

FilledAtAllocation ==
    (scn.pc = "live" /\ last.op = scn.path) =>
        /\ proc = "running"
        /\ mi[scn.h].data = scn.data
        /\ scn.data.blk = scn.h
        /\ FilledWith(last.ev, "CB")

\* C20: a safe variant writes 0xCB to exactly the first min(size, 256)
\* payload bytes; the release that destroys the handle writes 0xDE to
\* exactly those bytes when the system is not shutting down, and writes
\* nothing after NRT_MemSys_shutdown.
C20_SafeFillUnlessShutdown ==
    /\ FilledAtAllocation
    /\ scn.pc = "released" =>
          /\ proc = "running"
          /\ IF TheMSys.shutting = 0 THEN FilledWith(last.ev, "DE")
                                     ELSE Fills(last.ev) = {}

C20_Witness ==
    /\ scn.pc = "released"
    /\ scn.size = 300
    /\ TheMSys.shutting = 0
    /\ \E i \in Fills(last.ev) : last.ev[i].byte = "DE" /\ last.ev[i].n = 256

\* C20 as stated: a safe variant writes 0xCB to exactly the first
\* min(size, 256) payload bytes, and the release that destroys the handle
\* writes 0xDE to exactly those bytes.
C20_SafeFill ==
    /\ FilledAtAllocation
    /\ scn.pc = "released" => (proc = "running" /\ FilledWith(last.ev, "DE"))

(***************************************************************************)
(* The order of the events of the release that destroys a handle           *)
(* (SpecFill): the caller's destructor, the fill, the free of the block.   *)
(***************************************************************************)
CustomDtorPaths == {"NRT_MemInfo_alloc_safe", "NRT_MemInfo_alloc_dtor_safe"}

EventsNamed(ev, e) == {i \in DOMAIN ev : ev[i].e = e}

\* every event of I comes before every event of J
Before(I, J) == \A i \in I, j \in J : i < j

\* the destroying release called the caller's destructor of an
\* NRT_MemInfo_alloc_dtor_safe handle once with (data, size), or not at all
\* for a null one, then filled the payload, then freed the block
DtorThenFillThenFree(ev) ==
    LET users == EventsNamed(ev, "user_dtor")
        frees == EventsAt(ev, "free", scn.h)
    IN  /\ IF scn.path = "NRT_MemInfo_alloc_dtor_safe"
           THEN /\ Cardinality(users) = 1
                /\ \A i \in users : /\ ev[i].at = scn.data
                                    /\ ev[i].n = scn.size
           ELSE users = {}
        /\ FilledWith(ev, "DE")
        /\ Cardinality(frees) = 1
        /\ Before(users, Fills(ev))
        /\ Before(users \cup Fills(ev), frees)
        /\ heap[scn.h].st /= "live"

\* C21: the release that destroys a handle of NRT_MemInfo_alloc_dtor_safe
\* while the system is not shutting down calls the caller's destructor
\* exactly once with (data, size), then fills the payload, then frees the
\* block; for a null destructor (NRT_MemInfo_alloc_safe) it fills and frees
\* only; after NRT_MemSys_shutdown it calls no destructor, fills nothing and
\* frees the block.
C21_CustomDtorThenFillUnlessShutdown ==
    (scn.pc = "released" /\ scn.path \in CustomDtorPaths) =>
        /\ proc = "running"
        /\ IF TheMSys.shutting = 0 THEN DtorThenFillThenFree(last.ev)
           ELSE /\ EventsNamed(last.ev, "user_dtor") = {}
                /\ Fills(last.ev) = {}
                /\ Cardinality(EventsAt(last.ev, "free", scn.h)) = 1

C21_Witness ==
    /\ scn.pc = "released"
    /\ scn.path = "NRT_MemInfo_alloc_dtor_safe"
    /\ scn.size = 257
    /\ TheMSys.shutting = 0
    /\ \E i \in EventsNamed(last.ev, "user_dtor") :
          \E j \in Fills(last.ev) : i < j /\ last.ev[i].n = 257

\* C21 as stated: the release that destroys a handle of
\* NRT_MemInfo_alloc_dtor_safe calls the caller's destructor exactly once
\* with (data, size), then fills the payload, then frees the block; for a
\* null destructor it fills and frees only.
C21_CustomDtorThenFill ==
    (scn.pc = "released" /\ scn.path \in CustomDtorPaths) =>
        (proc = "running" /\ DtorThenFillThenFree(last.ev))

(***************************************************************************)
(* The life of a handle that wraps memory of the caller (SpecLeak).        *)
(***************************************************************************)
\* C22: a handle of nrt_manage_memory(data, dtor) starts with refcount 1 and
\* size 0 and points at data; while the system is not shutting down, no
\* acquire and no release that leaves the refcount positive calls the
\* destructor or frees anything, and the release that takes the refcount to
\* zero calls the destructor exactly once, with data, and then frees exactly
\* one block, the handle record, through NRT_Free and the global binding.
C22_ManagedMemory ==
    scn.path = "nrt_manage_memory" =>
        LET dtors == EventsNamed(last.ev, "managed_dtor")
            frees == EventsNamed(last.ev, "free")
        IN  /\ proc = "running"
            /\ (scn.pc = "run" /\ last.op = "nrt_manage_memory") =>
                  /\ NRT_MemInfo_refcount(Cur, Base(scn.h)) = 1
                  /\ NRT_MemInfo_size(Cur, Base(scn.h)) = 0
                  /\ NRT_MemInfo_data(Cur, Base(scn.h)) = ForeignPtr
            /\ scn.pc = "run" => (dtors = {} /\ frees = {})
            /\ scn.pc = "done" =>
                  /\ Cardinality(dtors) = 1
                  /\ \A i \in dtors : last.ev[i].at = ForeignPtr
                  /\ Cardinality(frees) = 1
                  /\ \A i \in frees : /\ last.ev[i].blk = scn.h
                                      /\ last.ev[i].fext = NoExt
                                      /\ last.ev[i].fr = TheMSys.allocator
                  /\ Before(dtors, frees)
                  /\ heap[scn.h].st /= "live"

C22_Witness ==
    /\ scn.path = "nrt_manage_memory"
    /\ scn.pc = "done"
    /\ scn.n = 1
    /\ \E i \in EventsNamed(last.ev, "managed_dtor") :
          last.ev[i].at = ForeignPtr
    /\ TheMSys.stats_mi_free = TheMSys.stats_mi_alloc

(***************************************************************************)
(* One handle of any construction path, with a destructor of the caller    *)
(* where the path takes one, up to the release that destroys it: the       *)
(* caller may acquire it once more, resize or free the payload of a        *)
(* variable-size handle, and shut the system down before the release.      *)
(* scn holds the path, the handle, the acquires and resizes made, and the  *)
(* payload pointer the construction or the latest successful resize        *)
(* returned (null once the caller freed it).                               *)
(***************************************************************************)
MaxResizes == 2

DestroyPaths == LeakPaths \cup {"NRT_MemInfo_new"}

DestroySizes == {16, 32}

DestroyBy(path, s) ==
    IF path = "NRT_MemInfo_new"
    THEN NRT_MemInfo_new(s, ForeignPtr, 16, "user_dtor", UserDtor, TRUE, AllOk)
    ELSE ConstructBy(path, s)

InitDestroy ==
    /\ \E a \in Allocators : TheMSys = [InitSys EXCEPT !.allocator = a]
    /\ heap = [b \in Blocks |-> NoBlock]
    /\ mi = [b \in Blocks |-> NoMI]
    /\ last = NoLast
    /\ proc = "running"
    /\ calls = 0
    /\ scn = [pc |-> "start", path |-> "none", h |-> 0, acq |-> 0,
              resizes |-> 0, data |-> NullPtr]
    /\ thr = NoThr

\* the call's result r committed
DestroyCommit(path, r) ==
    /\ Commit(r.s, path, r.r.blk, r.r)
    /\ scn' = [scn EXCEPT !.pc = "live", !.path = path, !.h = r.r.blk,
                          !.data = NRT_MemInfo_data(r.s, r.r)]

DestroyConstruct ==
    /\ scn.pc = "start"
    /\ \E path \in DestroyPaths : DestroyCommit(path, DestroyBy(path, Cur))
    /\ UNCHANGED thr

DestroyShutdown ==
    /\ scn.pc = "live"
    /\ TheMSys.shutting = 0
    /\ Commit(NRT_MemSys_shutdown(Cur), "NRT_MemSys_shutdown", 0, NullPtr)
    /\ UNCHANGED <<scn, thr>>

DestroyAcquire ==
    /\ scn.pc = "live"
    /\ scn.acq = 0
    /\ Commit(NRT_MemInfo_acquire(Cur, Base(scn.h)), "NRT_MemInfo_acquire",
              scn.h, NullPtr)
    /\ scn' = [scn EXCEPT !.acq = 1]
    /\ UNCHANGED thr

\* the resize's result r committed; a resize that returns null installs
\* nothing
ResizeCommit(op, r, size) ==
    /\ CommitArg(r.s, op, scn.h, r.r, size)
    /\ scn' = [scn EXCEPT !.resizes = @ + 1,
                          !.data = IF r.r = NullPtr THEN @ ELSE r.r]

DestroyResize ==
    /\ scn.pc = "live"
    /\ scn.path \in VarsizePaths
    /\ scn.resizes < MaxResizes
    /\ \E size \in DestroySizes :
          \/ \E c \in OneAlloc :
                ResizeCommit("NRT_MemInfo_varsize_alloc",
                             NRT_MemInfo_varsize_alloc(Cur, Base(scn.h), size,
                                                       c),
                             size)
          \/ \E c \in Realloc :
                ResizeCommit("NRT_MemInfo_varsize_realloc",
                             NRT_MemInfo_varsize_realloc(Cur, Base(scn.h),
                                                         size, c),
                             size)
    /\ UNCHANGED thr

\* the caller frees the payload the handle points at
DestroyFree ==
    /\ scn.pc = "live"
    /\ scn.path \in VarsizePaths
    /\ scn.resizes < MaxResizes
    /\ mi[scn.h].data /= NullPtr
    /\ Commit(NRT_MemInfo_varsize_free(Cur, Base(scn.h), mi[scn.h].data,
                                       AllOk),
              "NRT_MemInfo_varsize_free", scn.h, mi[scn.h].data)
    /\ scn' = [scn EXCEPT !.resizes = @ + 1, !.data = NullPtr]
    /\ UNCHANGED thr

DestroyRelease ==
    /\ scn.pc = "live"
    /\ \E c \in NoAlloc :
          Commit(NRT_MemInfo_release(Cur, Base(scn.h), c),
                 "NRT_MemInfo_release", scn.h, NullPtr)
    /\ scn' = [scn EXCEPT !.pc = IF mi[scn.h].refct = 1 THEN "released"
                                 ELSE "live"]
    /\ UNCHANGED thr

NextDestroy ==
    \/ DestroyConstruct
    \/ DestroyShutdown
    \/ DestroyAcquire
    \/ DestroyResize
    \/ DestroyFree
    \/ DestroyRelease

SpecDestroy == InitDestroy /\ [][NextDestroy]_vars

C23_Step ==
    \A h \in Blocks :
        (Released(h) /\ mi[h].refct = 1) =>
            LET ev == last'.ev
                dtors == EventsNamed(ev, "dtor")
                frees == EventsAt(ev, "free", h)
                counted == EventsNamed(ev, "mi_free")
            IN  /\ proc' = "running"
                /\ IF mi[h].dtor /= "NULL" /\ TheMSys.shutting = 0
                   THEN /\ dtors = {1}
                        /\ ev[1].blk = h
                        /\ ev[1].at = mi[h].data
                        /\ ev[1].n = mi[h].size
                        /\ ev[1].info = mi[h].dtor_info
                   ELSE dtors = {}
                /\ frees = {Len(ev) - 1}
                /\ \A i \in frees : ev[i].fext = mi[h].external_allocator
                /\ counted = {Len(ev)}
                /\ ev[Len(ev)].blk = h
                /\ heap'[h].st /= "live"
                /\ TheMSys'.stats_mi_free = TheMSys.stats_mi_free + 1

\* C23: in the release that takes a handle's refcount to zero, the first
\* thing that happens is the call destructor(data, size, destructor_ctx)
\* with the handle's fields, if a destructor is set and the system is not
\* shutting down, and no such call otherwise; everything the destructor does
\* comes before the free of the handle's block, through the handle's
\* external allocator or NRT_Free, which comes once and is followed only by
\* the one increment of stats_mi_free.
C23_DtorThenFreeThenCount == [][C23_Step]_vars

C23_Witness ==
    /\ scn.pc = "released"
    /\ scn.path = "NRT_MemInfo_new_varsize_dtor"
    /\ TheMSys.shutting = 0
    /\ Len(last.ev) = 5
    /\ last.ev[1].e = "dtor" /\ last.ev[1].n = 32
    /\ last.ev[4].e = "free" /\ last.ev[4].blk = scn.h
    /\ last.ev[5].e = "mi_free"

(***************************************************************************)
(* Handles in an ownership chain: a leaf, and above it handles whose       *)
(* destructor, a function of the caller, releases the handle below (which  *)
(* the handle above owns a reference to) or acquires and releases it.  The *)
(* caller may take an extra reference to any handle of the chain, and      *)
(* releases the references it holds in any order that keeps a handle alive *)
(* while a destructor above it will still touch it.  scn holds the chain,  *)
(* bottom first, the references the caller holds and the extra ones taken. *)
(***************************************************************************)
MaxChain == 3
MaxExtra == 1

ChainDtors == {"release_child_dtor", "touch_child_dtor"}

InitChain ==
    /\ \E a \in Allocators : TheMSys = [InitSys EXCEPT !.allocator = a]
    /\ heap = [b \in Blocks |-> NoBlock]
    /\ mi = [b \in Blocks |-> NoMI]
    /\ last = NoLast
    /\ proc = "running"
    /\ calls = 0
    /\ scn = [pc |-> "build", chain |-> <<>>, held |-> [b \in Blocks |-> 0],
              extra |-> 0]
    /\ thr = NoThr

\* the handle r.r, constructed above `child` with destructor dtor, or as the
\* leaf: a handle whose destructor releases the child takes over the
\* caller's reference to it
ChainCommit(op, r, dtor, child) ==
    /\ Commit(r.s, op, r.r.blk, r.r)
    /\ scn' = [scn EXCEPT
                 !.chain = Append(@, r.r.blk),
                 !.held = [b \in Blocks |->
                              IF b = r.r.blk THEN 1
                              ELSE IF b = child /\ dtor = "release_child_dtor"
                              THEN @[b] - 1
                              ELSE @[b]]]

ChainLeaf ==
    /\ scn.pc = "build"
    /\ scn.chain = <<>>
    /\ ChainCommit("NRT_MemInfo_alloc_dtor_safe",
                   NRT_MemInfo_alloc_dtor_safe(Cur, 16, UserDtor, AllOk),
                   "NULL", 0)
    /\ UNCHANGED thr

ChainParent ==
    /\ scn.pc = "build"
    /\ Len(scn.chain) \in 1 .. MaxChain - 1
    /\ LET child == scn.chain[Len(scn.chain)]
       IN  /\ scn.held[child] > 0
           /\ \E dtor \in ChainDtors :
                 ChainCommit("NRT_MemInfo_new",
                             NRT_MemInfo_new(Cur, ForeignPtr, 0, dtor, child,
                                             TRUE, AllOk),
                             dtor, child)
    /\ UNCHANGED thr

ChainAlive(h) == mi[h].init /\ heap[h].st = "live" /\ mi[h].refct > 0

\* a handle above h whose destructor will acquire and release h
Touched(h) ==
    \E p \in Blocks : /\ ChainAlive(p)
                      /\ mi[p].dtor = "touch_child_dtor"
                      /\ mi[p].dtor_info = h

ChainAcquire ==
    /\ scn.chain /= <<>>
    /\ scn.extra < MaxExtra
    /\ \E h \in Blocks :
          /\ ChainAlive(h)
          /\ Commit(NRT_MemInfo_acquire(Cur, Base(h)), "NRT_MemInfo_acquire",
                    h, NullPtr)
          /\ scn' = [scn EXCEPT !.held[h] = @ + 1, !.extra = @ + 1]
    /\ UNCHANGED thr

ChainRelease ==
    /\ scn.chain /= <<>>
    /\ \E h \in Blocks :
          /\ scn.held[h] > 0
          /\ ~(Touched(h) /\ mi[h].refct = 1)
          /\ Commit(NRT_MemInfo_release(Cur, Base(h), AllOk),
                    "NRT_MemInfo_release", h, NullPtr)
          /\ scn' = [scn EXCEPT !.held[h] = @ - 1, !.pc = "run"]
    /\ UNCHANGED thr

NextChain ==
    \/ ChainLeaf
    \/ ChainParent
    \/ ChainAcquire
    \/ ChainRelease

SpecChain == InitChain /\ [][NextChain]_vars

\* the handles a release of h destroys: h if this is its last reference,
\* and then what the destructor of h releases for the last time
RECURSIVE Doomed(_, _)
Doomed(h, depth) ==
    IF depth = 0 \/ h \notin Blocks \/ mi[h].refct /= 1 THEN {}
    ELSE {h} \cup (IF mi[h].dtor = "release_child_dtor"
                   THEN Doomed(mi[h].dtor_info, depth - 1)
                   ELSE {})

\* the reference to h a call drops: that of the caller, or that of a
\* destroyed handle whose destructor releases h
Dropped(h, D) ==
    \/ last'.mi = h
    \/ \E p \in D : mi[p].dtor = "release_child_dtor" /\ mi[p].dtor_info = h

\* the index of the one event e of block b
IndexOf(ev, e, b) == CHOOSE i \in EventsAt(ev, e, b) : TRUE

C24_Step ==
    last'.op = "NRT_MemInfo_release" =>
        LET ev == last'.ev
            D == Doomed(last'.mi, MaxBlocks)
        IN  /\ proc' = "running"
            /\ \A h \in Blocks :
                  /\ Cardinality(EventsAt(ev, "dtor", h))
                        = IF h \in D THEN 1 ELSE 0
                  /\ Cardinality(EventsAt(ev, "free", h))
                        = IF h \in D THEN 1 ELSE 0
                  /\ Cardinality(EventsAt(ev, "mi_free", h))
                        = IF h \in D THEN 1 ELSE 0
                  /\ h \in D => heap'[h].st /= "live"
                  /\ (ChainAlive(h) /\ h \notin D) =>
                        /\ heap'[h].st = "live" /\ mi'[h].init
                        /\ mi'[h].refct = IF Dropped(h, D) THEN mi[h].refct - 1
                                          ELSE mi[h].refct
            /\ \A p \in D :
                  LET c == mi[p].dtor_info
                  IN  (mi[p].dtor = "release_child_dtor" /\ c \in D) =>
                         /\ IndexOf(ev, "dtor", p) < IndexOf(ev, "dtor", c)
                         /\ IndexOf(ev, "mi_free", c) < IndexOf(ev, "free", p)
            /\ TheMSys'.stats_mi_free = TheMSys.stats_mi_free + Cardinality(D)
            /\ TheMSys'.stats_free = TheMSys.stats_free + Cardinality(D)
            /\ (\A h \in Blocks : scn'.held[h] = 0) =>
                  /\ Balanced(TheMSys')
                  /\ \A b \in Blocks : heap'[b].st /= "live"

\* C24: a release whose destructor releases, or acquires and releases, the
\* handle below it, along a chain of handles, returns normally; it destroys
\* exactly the handles whose refcount it takes to zero, each once (one
\* destructor call, one free, one count); the record of a handle is freed
\* only after the release its destructor made has destroyed the handle below
\* and returned; the other handles keep their records and lose only the
\* reference dropped; and once every reference is released the counter pairs
\* are balanced and no block is left.
C24_ReentrantRelease == [][C24_Step]_vars

C24_Witness ==
    /\ last.op = "NRT_MemInfo_release"
    /\ Len(scn.chain) = 3
    /\ \A i \in 1 .. 3 : EventsAt(last.ev, "mi_free", scn.chain[i]) /= {}
    /\ Balanced(TheMSys)
    /\ proc = "running"

C25_Step ==
    (/\ Released(scn.h)
     /\ scn.path \in VarsizePaths
     /\ mi[scn.h].refct = 1
     /\ TheMSys.shutting = 0
     /\ scn.data /= NullPtr) =>
        LET ev == last'.ev
            elems == EventsNamed(ev, "elem_dtor")
            payload == EventsAt(ev, "free", scn.data.blk)
            record == EventsAt(ev, "free", scn.h)
        IN  /\ proc' = "running"
            /\ IF scn.path = "NRT_MemInfo_new_varsize_dtor"
               THEN /\ Cardinality(elems) = 1
                    /\ \A i \in elems : ev[i].at = scn.data
               ELSE elems = {}
            /\ Cardinality(payload) = 1
            /\ \A i \in payload : /\ ev[i].fext = NoExt
                                  /\ ev[i].fr = TheMSys.allocator
            /\ Cardinality(record) = 1
            /\ Before(elems, payload)
            /\ Before(payload, record)

\* C25: the release that destroys a variable-size handle while the system is
\* not shutting down calls the element destructor of
\* NRT_MemInfo_new_varsize_dtor exactly once, on the payload pointer that the
\* construction or the latest successful resize installed, then frees that
\* payload through NRT_Free and the global binding, then frees the handle
\* record; without an element destructor it makes the two frees only.
C25_ElemDtorOnLatestPayload == [][C25_Step]_vars

(***************************************************************************)
(* One thread calls NRT_MemSys_set_allocator while the others call         *)
(* NRT_Allocate, NRT_Reallocate and NRT_Free on blocks of their own.  The  *)
(* rebinding thread makes the test and the three stores of lines 90-100    *)
(* one at a time; the accesses to TheMSys.allocator are not synchronised,  *)
(* and each of the other calls reads one of its fields once.  scn holds    *)
(* the position of the rebinding thread, the triple in force before and    *)
(* the triple passed; thr holds, for each other thread, its block and the  *)
(* functions it has read for it.                                           *)
(***************************************************************************)
MaxCycles == 1

InitRebind ==
    /\ \E a \in Allocators : /\ TheMSys = [InitSys EXCEPT !.allocator = a]
                             /\ scn = [pc |-> "idle", old |-> a,
                                       new |-> NoBinding]
    /\ heap = [b \in Blocks |-> NoBlock]
    /\ mi = [b \in Blocks |-> NoMI]
    /\ last = NoLast
    /\ proc = "running"
    /\ calls = 0
    /\ thr = [t \in Threads |-> [blk |-> 0, view |-> NoBinding, n |-> 0]]

\* lines 90-97: the test, and nrt_fatal_error if it fails
RebindCheck ==
    /\ proc = "running"
    /\ scn.pc = "idle"
    /\ \E a \in Allocators \ {TheMSys.allocator} :
          /\ proc' = NRT_MemSys_set_allocator(Cur, a.malloc, a.realloc,
                                              a.free).proc
          /\ scn' = [scn EXCEPT !.pc = "checked", !.new = a]
    /\ UNCHANGED <<TheMSys, heap, mi, last, calls, thr>>

\* line 98: TheMSys.allocator.malloc = malloc_func
RebindStoreMalloc ==
    /\ proc = "running"
    /\ scn.pc = "checked"
    /\ TheMSys' = [TheMSys EXCEPT !.allocator.malloc = scn.new.malloc]
    /\ scn' = [scn EXCEPT !.pc = "malloc_set"]
    /\ UNCHANGED <<heap, mi, last, proc, calls, thr>>

\* line 99: TheMSys.allocator.realloc = realloc_func
RebindStoreRealloc ==
    /\ proc = "running"
    /\ scn.pc = "malloc_set"
    /\ TheMSys' = [TheMSys EXCEPT !.allocator.realloc = scn.new.realloc]
    /\ scn' = [scn EXCEPT !.pc = "realloc_set"]
    /\ UNCHANGED <<heap, mi, last, proc, calls, thr>>

\* line 100: TheMSys.allocator.free = free_func
RebindStoreFree ==
    /\ proc = "running"
    /\ scn.pc = "realloc_set"
    /\ TheMSys' = [TheMSys EXCEPT !.allocator.free = scn.new.free]
    /\ scn' = [scn EXCEPT !.pc = "done"]
    /\ UNCHANGED <<heap, mi, last, proc, calls, thr>>

\* the state s after a call of thread t
RebindCommit(s) ==
    /\ TheMSys' = s.sys
    /\ heap' = s.heap
    /\ mi' = s.mi
    /\ proc' = s.proc
    /\ UNCHANGED <<last, calls, scn>>

\* NRT_Allocate by thread t, which reads TheMSys.allocator.malloc
ThreadAllocate(t) ==
    /\ proc = "running"
    /\ thr[t].blk = 0
    /\ thr[t].n < MaxCycles
    /\ LET r == NRT_Allocate(Cur, 16, TRUE)
       IN  /\ RebindCommit(r.s)
           /\ thr' = [thr EXCEPT
                        ![t] = [blk |-> r.r.blk, n |-> @.n + 1,
                                view |-> [NoBinding EXCEPT
                                    !.malloc = TheMSys.allocator.malloc]]]

\* NRT_Reallocate by thread t, which reads TheMSys.allocator.realloc
ThreadReallocate(t) ==
    /\ proc = "running"
    /\ thr[t].blk /= 0
    /\ thr[t].view.realloc = NoFunc
    /\ RebindCommit(NRT_Reallocate(Cur, Base(thr[t].blk), 32, AllOk).s)
    /\ thr' = [thr EXCEPT ![t].view.realloc = TheMSys.allocator.realloc]

\* NRT_Free by thread t, which reads TheMSys.allocator.free
ThreadFree(t) ==
    /\ proc = "running"
    /\ thr[t].blk /= 0
    /\ RebindCommit(NRT_Free(Cur, Base(thr[t].blk), AllOk))
    /\ thr' = [thr EXCEPT ![t].blk = 0,
                          ![t].view.free = TheMSys.allocator.free]

NextRebind ==
    \/ RebindCheck
    \/ RebindStoreMalloc
    \/ RebindStoreRealloc
    \/ RebindStoreFree
    \/ \E t \in Threads :
          \/ ThreadAllocate(t)
          \/ ThreadReallocate(t)
          \/ ThreadFree(t)

SpecRebind == InitRebind /\ [][NextRebind]_vars

\* the functions a thread has read for one block are those of one triple
FromOneTriple(view) ==
    \E T \in {scn.old, scn.new} :
        /\ view.malloc \in {NoFunc, T.malloc}
        /\ view.realloc \in {NoFunc, T.realloc}
        /\ view.free \in {NoFunc, T.free}

\* C26: while a thread is in NRT_MemSys_set_allocator and others allocate,
\* reallocate and free, the functions a thread reads for one block all
\* belong to the triple in force before the call or all to the triple
\* passed, and no allocation or free happens between the test of the
\* counters and the last store of the swap.
C26_AtomicRebind ==
    /\ \A t \in Threads : FromOneTriple(thr[t].view)
    /\ scn.pc \in {"checked", "malloc_set", "realloc_set"} =>
          (proc = "running" => Balanced(TheMSys))

(***************************************************************************)
(* The counters over one handle's life (SpecDestroy), in which the caller  *)
(* frees a payload at most once.                                           *)
(***************************************************************************)
\* C27: in every state the calls on a handle reach, stats_free is at most
\* stats_alloc and stats_mi_free is at most stats_mi_alloc.
C27_FreedNeverOvertakes ==
    proc = "running" =>
        /\ TheMSys.stats_free <= TheMSys.stats_alloc
        /\ TheMSys.stats_mi_free <= TheMSys.stats_mi_alloc

(***************************************************************************)
(* The block and the payload of the aligned variants, for sizes and        *)
(* alignments up to the largest values of their types and for blocks at    *)
(* several addresses.  scn holds the size and the alignment passed, the    *)
(* address and the length of the block the allocator was asked for, and    *)
(* the address of the payload.                                             *)
(***************************************************************************)
BoundSizes == {0, 1, 16, 300}

BoundAligns == {1, 2, 3, 8, 32, 100, 2 ^ (UIntBits - 1), 2 ^ UIntBits - 1}

InitBounds ==
    /\ TheMSys = InitSys
    /\ \E k \in 0 .. MaxInUse :
          heap = [b \in Blocks |->
                     IF b <= k THEN [NoBlock EXCEPT !.st = "live", !.by = libc]
                     ELSE NoBlock]
    /\ mi = [b \in Blocks |-> NoMI]
    /\ last = NoLast
    /\ proc = "running"
    /\ calls = 0
    /\ scn = [pc |-> "start", size |-> 0, align |-> 1, base |-> 0,
              requested |-> 0, data |-> 0]
    /\ thr = NoThr

\* the length the call r asked the allocator for
Requested(r) ==
    LET i == CHOOSE i \in DOMAIN r.s.ev : r.s.ev[i].e = "malloc"
    IN  r.s.ev[i].n

\* the call's result r committed, with the block and the payload it made
BoundsCommit(path, r, size, align) ==
    /\ CommitArg(r.s, path, r.r.blk, r.r, size)
    /\ scn' = [pc |-> "allocated", size |-> size, align |-> align,
               base |-> PtrAddr(r.r),
               requested |-> Requested(r),
               data |-> PtrAddr(NRT_MemInfo_data(r.s, r.r))]

BoundsAlloc ==
    /\ scn.pc = "start"
    /\ \E path \in AlignedPaths, size \in BoundSizes, align \in BoundAligns :
          BoundsCommit(path, AlignedBy(path, Cur, size, align), size, align)
    /\ UNCHANGED thr

NextBounds == BoundsAlloc

SpecBounds == InitBounds /\ [][NextBounds]_vars

\* C28: the payload of an aligned variant starts at or after the end of the
\* handle record, less than align bytes after it, and ends inside the block
\* the allocator was asked for.
C28_PayloadInsideBlock ==
    scn.pc = "allocated" =>
        LET offset == scn.data - (scn.base + SizeofMemInfo)
        IN  /\ offset >= 0
            /\ offset < scn.align
            /\ scn.data + scn.size <= scn.base + scn.requested

============================================================================
